---- MODULE Spec2Model ----
(***************************************************************************)
(* Order admission and dispatch of the trading system: ExecutionEngine,    *)
(* RiskManager, LiquidityAnalyzer, LargeOrderMonitor, ProbabilityStrategy, *)
(* and the StrategyExecutor with the PolymarketStrategy selection helpers. *)
(*                                                                         *)
(* Conventions.  Decimal amounts are integers.  An Optional value is a     *)
(* sequence: <<>> is None, <<v>> is the value v.  Text fields that can be  *)
(* None carry the string "None".  Wall-clock time is the variable `now`,   *)
(* counted in ticks; one handler runs within one tick.                     *)
(***************************************************************************)
EXTENDS Integers, Sequences, FiniteSets, TLC

VARIABLES
    now,                 \* datetime.now(), in ticks
    orders,              \* the Order objects the callers hold, by reference
    risk_manager,        \* RiskManager: daily_trade_amount, last_reset_date, market_exposure, trade_history
    liquidity_analyzer,  \* LiquidityAnalyzer: historical_data, cache
    large_order_monitor, \* LargeOrderMonitor: threshold, large_orders, files, order_index
    order_history,       \* ExecutionEngine._order_history
    gateway,             \* the venue adapter: the orders send_order received
    strategy_executor,   \* StrategyExecutor: _running, _thread, _stop_event, _event_cooldowns, loop threads
    threads,             \* calls in flight on concurrent threads, each with its position and locals
    last                 \* what the last call did and returned to its caller

vars == <<now, orders, risk_manager, liquidity_analyzer, large_order_monitor,
          order_history, gateway, strategy_executor, threads, last>>

-----------------------------------------------------------------------------
(* Bounds of the model *)

MaxTime == 2        \* the clock stops after this many ticks
DayTicks == 2       \* ticks in a calendar day
MinuteTicks == 1    \* ticks in the trailing minute of the frequency check
MaxTrades == 2      \* record_trade calls explored on the risk ledger alone
MaxSends == 2       \* send_order calls explored
MaxBatch == 2       \* entries of one submit_orders_batch call
MaxThreads == 2     \* scheduler threads StrategyExecutor.start creates
MaxWeeks == 1       \* recency windows that pass over the liquidity samples
MaxAdds == 2        \* add_historical_data calls explored on the analyzer alone
MaxRecords == 2     \* large orders recorded on the monitor alone
MaxOutcomes == 3    \* outcomes of the market M-choose-N is called on
MantissaBits == 4   \* significant bits of a float (53 in the program)
MinExponent == 6    \* the smallest float input is 2^-MinExponent
MaxFutures == 2       \* orders in one record_orders_batch call
MaxDaySends == 2      \* send_order calls in the one-day specification

-----------------------------------------------------------------------------
(* Values *)

None == "None"

Today(t) == t \div DayTicks

\* core/models.py Instrument; NoInstrument stands for instrument = None
Instrument(symbol, quote_asset, gateway_name) ==
    [symbol |-> symbol, quote_asset |-> quote_asset, gateway_name |-> gateway_name]

NoInstrument == Instrument(None, None, None)

\* core/models.py Order: a new Order is pending, unfilled, without venue id
Order(order_id, instrument, side, type, quantity, price, account_id) ==
    [order_id |-> order_id, instrument |-> instrument, side |-> side, type |-> type,
     quantity |-> quantity, price |-> price, status |-> "pending", filled_qty |-> 0,
     gateway_order_id |-> <<>>, account_id |-> account_id]

\* core/models.py Position and AccountInfo
Position(size, avg_price) == [size |-> size, avg_price |-> avg_price]

AccountInfo(account_id, balances, positions) ==
    [account_id |-> account_id, balances |-> balances, positions |-> positions]

Assets == {"USDC", "USDT"}

InstPoly == Instrument("m1", "USDC", "polymarket")
InstBinance == Instrument("BTCUSDT", "USDT", "binance")

Idle == [op |-> "none"]

-----------------------------------------------------------------------------
(* RiskManager *)

\* data/risk_config.json as _load_config returns it: a small configuration
RiskConfig ==
    [max_order_size |-> 150, daily_trade_limit |-> 250, max_market_exposure |-> 200,
     max_trades_per_minute |-> 2, max_position_size |-> 300]

TradeHistoryCap == 1000

RiskManagerInit(t) ==
    [daily_trade_amount |-> 0, last_reset_date |-> Today(t),
     market_exposure |-> <<>>, trade_history |-> <<>>]

\* dict.get(key, 0) on a dict modelled as a function
Get(d, k) == IF k \in DOMAIN d THEN d[k] ELSE 0

\* order.price or Decimal('1'): None and a zero price both give 1
PriceOr1(price) == IF price = <<>> \/ price[1] = 0 THEN 1 ELSE price[1]

OrderSize(order) == order.quantity * PriceOr1(order.price)

_check_balance(account, order) == Get(account.balances, "USDC") >= OrderSize(order)

_check_order_size(order) == OrderSize(order) <= RiskConfig.max_order_size

\* a daily limit that looks at the accumulator alone
_check_daily_limit_ignores_order(rm, order) ==
    rm.daily_trade_amount <= RiskConfig.daily_trade_limit

_check_daily_limit(rm, order) ==
    rm.daily_trade_amount + OrderSize(order) <= RiskConfig.daily_trade_limit

_check_market_exposure(rm, order) ==
    Get(rm.market_exposure, order.instrument.symbol) + OrderSize(order)
        <= RiskConfig.max_market_exposure

RecentTrades(rm, t) ==
    {i \in 1..Len(rm.trade_history) : rm.trade_history[i].timestamp >= t - MinuteTicks}

\* a frequency check whose window leaves out the trade made exactly one minute ago
_check_trade_frequency_open_window(rm, t) ==
    Cardinality({i \in 1..Len(rm.trade_history) :
                    rm.trade_history[i].timestamp > t - MinuteTicks})
        < RiskConfig.max_trades_per_minute

_check_trade_frequency(rm, t) ==
    Cardinality(RecentTrades(rm, t)) < RiskConfig.max_trades_per_minute

_check_price_deviation(order) == TRUE

RECURSIVE TotalPosition(_)
TotalPosition(positions) ==
    IF positions = <<>> THEN 0
    ELSE Head(positions).size * Head(positions).avg_price + TotalPosition(Tail(positions))

_check_position_size(account) ==
    TotalPosition(account.positions) <= RiskConfig.max_position_size

\* a reset that does not look at the date
_reset_daily_limit_unconditional(rm, t) ==
    [rm EXCEPT !.daily_trade_amount = 0, !.last_reset_date = Today(t)]

_reset_daily_limit(rm, t) ==
    IF Today(t) # rm.last_reset_date
    THEN [rm EXCEPT !.daily_trade_amount = 0, !.last_reset_date = Today(t)]
    ELSE rm

\* check_order: the verdict and the RiskManager it leaves behind
check_order(rm, account, order, t) ==
    LET rm1 == _reset_daily_limit(rm, t)
    IN [rm |-> rm1,
        verdict |-> /\ _check_balance(account, order)
                    /\ _check_order_size(order)
                    /\ _check_daily_limit(rm1, order)
                    /\ _check_market_exposure(rm1, order)
                    /\ _check_trade_frequency(rm1, t)
                    /\ _check_price_deviation(order)
                    /\ _check_position_size(account)]

record_trade(rm, order, executed_price, t) ==
    LET trade_size == order.quantity * executed_price
        symbol == order.instrument.symbol
        old == Get(rm.market_exposure, symbol)
        new == IF order.side = "buy" THEN old + trade_size ELSE old - trade_size
        exposure == [s \in DOMAIN rm.market_exposure \cup {symbol} |->
                        IF s = symbol THEN new ELSE rm.market_exposure[s]]
        trade_record == [order_id |-> order.order_id, market |-> symbol, side |-> order.side,
                         quantity |-> order.quantity, price |-> executed_price,
                         amount |-> trade_size, timestamp |-> t]
        hist == Append(rm.trade_history, trade_record)
    IN [rm EXCEPT !.daily_trade_amount = @ + trade_size,
                  !.market_exposure = exposure,
                  !.trade_history = IF Len(hist) > TradeHistoryCap THEN Tail(hist) ELSE hist]

-----------------------------------------------------------------------------
(* ProbabilityStrategy *)

min_total_probability == 90
safe_total_probability == 97

\* market_probabilities: None, an empty dict, or the two probabilities
NoProbabilities == [kind |-> "None", no_change |-> 0, decrease_25bps |-> 0]
EmptyProbabilities == [kind |-> "empty", no_change |-> 0, decrease_25bps |-> 0]
Probabilities(p1, p2) == [kind |-> "dict", no_change |-> p1, decrease_25bps |-> p2]

\* check_probability with the safe threshold compared strictly
check_probability_strict(no_change_prob, decrease_25bps_prob) ==
    LET total_prob == no_change_prob + decrease_25bps_prob
    IN IF no_change_prob < 0 \/ decrease_25bps_prob < 0
       THEN [can_trade |-> FALSE, message |-> "Negative probabilities are not allowed"]
       ELSE IF no_change_prob > 100 \/ decrease_25bps_prob > 100
       THEN [can_trade |-> FALSE, message |-> "Probabilities cannot exceed 100"]
       ELSE IF total_prob > safe_total_probability
       THEN [can_trade |-> TRUE, message |-> None]
       ELSE IF total_prob >= min_total_probability
       THEN [can_trade |-> TRUE, message |-> "below safe total, proceed with caution"]
       ELSE [can_trade |-> FALSE, message |-> "below minimum total, requires business judgment"]

check_probability(no_change_prob, decrease_25bps_prob) ==
    LET total_prob == no_change_prob + decrease_25bps_prob
    IN IF no_change_prob < 0 \/ decrease_25bps_prob < 0
       THEN [can_trade |-> FALSE, message |-> "Negative probabilities are not allowed"]
       ELSE IF no_change_prob > 100 \/ decrease_25bps_prob > 100
       THEN [can_trade |-> FALSE, message |-> "Probabilities cannot exceed 100"]
       ELSE IF total_prob >= safe_total_probability
       THEN [can_trade |-> TRUE, message |-> None]
       ELSE IF total_prob >= min_total_probability
       THEN [can_trade |-> TRUE, message |-> "below safe total, proceed with caution"]
       ELSE [can_trade |-> FALSE, message |-> "below minimum total, requires business judgment"]

analyze_market_probabilities(market_data) ==
    LET c == check_probability(market_data.no_change, market_data.decrease_25bps)
    IN [total_prob |-> market_data.no_change + market_data.decrease_25bps,
        can_trade |-> c.can_trade, message |-> c.message]

\* ProbabilityStrategy.get_trade_recommendation (lines 97-116)
get_trade_recommendation(market_data) ==
    LET analysis == analyze_market_probabilities(market_data)
    IN [analysis |-> analysis,
        recommendation |-> IF ~analysis.can_trade THEN "HOLD"
                           ELSE IF analysis.total_prob >= safe_total_probability
                           THEN "STRONG_BUY" ELSE "CAUTIOUS_BUY",
        confidence |-> IF ~analysis.can_trade THEN "LOW"
                       ELSE IF analysis.total_prob >= safe_total_probability
                       THEN "HIGH" ELSE "MEDIUM"]

-----------------------------------------------------------------------------
(* Floating-point arithmetic, and PolymarketStrategy.kelly_criterion *)

\* A float is m * 2^e with |m| < 2^MantissaBits; every operation computes the
\* exact result and rounds it to the nearest float, ties to even.
RECURSIVE Pow2(_)
Pow2(n) == IF n <= 0 THEN 1 ELSE 2 * Pow2(n - 1)

Float(m, e) == [m |-> m, e |-> e]

Magnitude(x) == IF x < 0 THEN 0 - x ELSE x

\* a / d rounded to the nearest integer, ties to even (a >= 0, d > 0)
RoundDiv(a, d) ==
    LET q == a \div d
        r == a % d
    IN IF 2 * r > d \/ (2 * r = d /\ q % 2 = 1) THEN q + 1 ELSE q

\* the number of low bits to drop so that a fits the mantissa
RECURSIVE ExcessBits(_)
ExcessBits(a) == IF a < Pow2(MantissaBits) THEN 0 ELSE 1 + ExcessBits(a \div 2)

\* m * 2^e rounded to a float
Rounded(m, e) ==
    LET k == ExcessBits(Magnitude(m))
        q == RoundDiv(Magnitude(m), Pow2(k))
    IN Float(IF m < 0 THEN 0 - q ELSE q, e + k)

MinOf(a, b) == IF a < b THEN a ELSE b

FAdd(x, y) ==
    LET e == MinOf(x.e, y.e)
    IN Rounded(x.m * Pow2(x.e - e) + y.m * Pow2(y.e - e), e)

FSub(x, y) == FAdd(x, Float(0 - y.m, y.e))

FMul(x, y) == Rounded(x.m * y.m, x.e + y.e)

\* x / y for y # 0: the quotient to 2 * MantissaBits + 2 bits, then rounded
FDiv(x, y) ==
    LET guard == 2 * MantissaBits + 2
        q == RoundDiv(Magnitude(x.m) * Pow2(guard), Magnitude(y.m))
    IN Rounded(IF (x.m < 0) # (y.m < 0) THEN 0 - q ELSE q, x.e - y.e - guard)

\* x <= y
FLe(x, y) ==
    LET e == MinOf(x.e, y.e)
    IN x.m * Pow2(x.e - e) <= y.m * Pow2(y.e - e)

FZero == Float(0, 0)

FOne == Float(1, 0)

\* max(x, y) and min(x, y) of Python: y only if it is strictly beyond x
FMax(x, y) == IF FLe(y, x) THEN x ELSE y

FMin(x, y) == IF FLe(x, y) THEN x ELSE y

\* kelly_criterion(win_probability, win_loss_ratio)
kelly_criterion(win_probability, win_loss_ratio) ==
    IF ~(FLe(FZero, win_probability) /\ FLe(win_probability, FOne)) THEN FZero
    ELSE IF FLe(win_loss_ratio, FZero) THEN FZero
    ELSE LET k == FDiv(FSub(FMul(win_probability, FAdd(win_loss_ratio, FOne)), FOne),
                       win_loss_ratio)
         IN FMax(FZero, FMin(FOne, k))

-----------------------------------------------------------------------------
(* LiquidityAnalyzer *)

max_history_per_symbol == 10000
MinTotalSamples == 10
MinRecentSamples == 5
RecentDays == 7
MediumBucketFrom == 10
LargeBucketFrom == 100
HighConfidenceSamples == 20

\* the characters of a symbol and of a decimal number, for the cache key string
SymbolText(symbol) ==
    CASE symbol = "m1" -> <<"m", "1">>
      [] symbol = "m10" -> <<"m", "1", "0">>
      [] OTHER -> <<symbol>>

Digit(d) == <<"0", "1", "2", "3", "4", "5", "6", "7", "8", "9">>[d + 1]

RECURSIVE NumberText(_)
NumberText(n) ==
    IF n < 0 THEN <<"-">> \o NumberText(0 - n)
    ELSE IF n < 10 THEN <<Digit(n)>>
    ELSE NumberText(n \div 10) \o <<Digit(n % 10)>>

\* f"{symbol}_{target_size}"
CacheKey(symbol, target_size) == SymbolText(symbol) \o <<"_">> \o NumberText(target_size)

\* key.startswith(symbol)
StartsWith(key, symbol) ==
    LET p == SymbolText(symbol)
    IN Len(key) >= Len(p) /\ SubSeq(key, 1, Len(p)) = p

LiquidityAnalyzerInit == [historical_data |-> <<>>, cache |-> <<>>]

History(la, symbol) ==
    IF symbol \in DOMAIN la.historical_data THEN la.historical_data[symbol] ELSE <<>>

_clear_cache(cache, symbol) ==
    [k \in {key \in DOMAIN cache : ~StartsWith(key, symbol)} |-> cache[k]]

add_historical_data(la, symbol, timestamp, api_price, executed_price, size) ==
    LET sample == [timestamp |-> timestamp, api_price |-> api_price,
                   executed_price |-> executed_price, size |-> size,
                   slippage |-> executed_price - api_price]
        h == Append(History(la, symbol), sample)
        kept == IF Len(h) > max_history_per_symbol
                THEN SubSeq(h, Len(h) - max_history_per_symbol + 1, Len(h)) ELSE h
    IN [historical_data |-> [s \in DOMAIN la.historical_data \cup {symbol} |->
                                IF s = symbol THEN kept ELSE la.historical_data[s]],
        cache |-> _clear_cache(la.cache, symbol)]

_get_size_bucket(size) ==
    IF size >= LargeBucketFrom THEN "large"
    ELSE IF size >= MediumBucketFrom THEN "medium" ELSE "small"

\* the samples of h newer than cutoff and in the size bucket, in order
RECURSIVE FilterSamples(_, _, _)
FilterSamples(h, cutoff, bucket) ==
    IF h = <<>> THEN <<>>
    ELSE LET x == Head(h)
             rest == FilterSamples(Tail(h), cutoff, bucket)
         IN IF x.timestamp > cutoff /\ (bucket = "any" \/ _get_size_bucket(x.size) = bucket)
            THEN <<x>> \o rest ELSE rest

RECURSIVE SumSlippage(_)
SumSlippage(h) == IF h = <<>> THEN 0 ELSE Head(h).slippage + SumSlippage(Tail(h))

RECURSIVE SumSquares(_)
SumSquares(h) ==
    IF h = <<>> THEN 0 ELSE Head(h).slippage * Head(h).slippage + SumSquares(Tail(h))

Abs(x) == IF x < 0 THEN 0 - x ELSE x

\* mean and sample standard deviation (ddof = 1) kept exact: n, the sum, and
\* n*(n-1)*variance; the deviation of a single sample is NaN
_calculate_liquidity_metrics(data) ==
    [n |-> Len(data), sum |-> SumSlippage(data),
     dev |-> Len(data) * SumSquares(data) - SumSlippage(data) * SumSlippage(data)]

\* |mean| < a/1000 and std < b/1000, on the exact metrics; false for NaN
Within(m, a, b) ==
    /\ m.n >= 2
    /\ 1000 * Abs(m.sum) < a * m.n
    /\ 1000000 * m.dev < b * b * m.n * (m.n - 1)

_calculate_liquidity_rating(metrics) ==
    IF Within(metrics, 1, 2) THEN "HIGH"
    ELSE IF Within(metrics, 5, 5) THEN "MEDIUM" ELSE "LOW"

LiquidityMessage(text, n, bucket) == [text |-> text, n |-> n, bucket |-> bucket]

LowLiquidity(estimate, message) ==
    [liquidity_rating |-> "LOW", slippage_estimate |-> <<estimate>>,
     confidence |-> "LOW", message |-> message]

\* analyze_liquidity: the result and the analyzer (its cache) it leaves behind
analyze_liquidity(la, symbol, target_size, t) ==
    LET cache_key == CacheKey(symbol, target_size)
        store(result) ==
            [la |-> [la EXCEPT !.cache = [k \in DOMAIN la.cache \cup {cache_key} |->
                                            IF k = cache_key THEN result ELSE la.cache[k]]],
             result |-> result]
        h == History(la, symbol)
        recent_data == FilterSamples(h, t - RecentDays * DayTicks, "any")
        target_bucket == _get_size_bucket(target_size)
        bucket_data == FilterSamples(h, t - RecentDays * DayTicks, target_bucket)
        metrics == _calculate_liquidity_metrics(bucket_data)
    IN IF cache_key \in DOMAIN la.cache
       THEN [la |-> la, result |-> la.cache[cache_key]]
       ELSE IF symbol = "" \/ target_size <= 0
       THEN [la |-> la,
             result |-> LowLiquidity("0.01", LiquidityMessage("Invalid input parameters", 0, ""))]
       ELSE IF Len(h) < MinTotalSamples
       THEN store(LowLiquidity("0.01", LiquidityMessage("Insufficient historical data", 0, "")))
       ELSE IF Len(recent_data) < MinRecentSamples
       THEN store(LowLiquidity("0.01", LiquidityMessage("Insufficient recent data", 0, "")))
       ELSE IF Len(bucket_data) = 0
       THEN store(LowLiquidity("0.02",
                  LiquidityMessage("No historical data for size bucket", 0, target_bucket)))
       ELSE store([liquidity_rating |-> _calculate_liquidity_rating(metrics),
                   slippage_estimate |-> <<"mean+2std", metrics>>,
                   confidence |-> IF Len(bucket_data) >= HighConfidenceSamples
                                  THEN "HIGH" ELSE "MEDIUM",
                   message |-> LiquidityMessage("Analyzed historical trades for size bucket",
                                                Len(bucket_data), target_bucket)])

-----------------------------------------------------------------------------
(* LargeOrderMonitor *)

DefaultThreshold == 100
max_memory_orders == 1000
max_workers == 4

LargeOrderMonitorInit ==
    [threshold |-> DefaultThreshold, max_memory_orders |-> max_memory_orders,
     large_orders |-> <<>>, files |-> <<>>, order_index |-> <<>>]

\* LargeOrderMonitor(threshold): the object, or the exception the constructor raises
LargeOrderMonitorNew(threshold) ==
    IF threshold <= 0 THEN [raised |-> "ValueError"]
    ELSE [LargeOrderMonitorInit EXCEPT !.threshold = threshold]

\* a set_threshold that stores whatever it is given
set_threshold_unchecked(lom, threshold) ==
    [lom |-> [lom EXCEPT !.threshold = threshold], result |-> TRUE]

\* set_threshold (lines 49-59): the ValueError is caught inside
set_threshold(lom, threshold) ==
    IF threshold <= 0 THEN [lom |-> lom, result |-> FALSE]
    ELSE [lom |-> [lom EXCEPT !.threshold = threshold], result |-> TRUE]

check_large_order(lom, order) == order.quantity >= lom.threshold

\* record_large_order; io is what the file system does to the write: "ok" or "fail",
\* ms the sub-tick part of the clock that goes into the file name
record_large_order(lom, order, t, io, ms) ==
    IF ~check_large_order(lom, order) THEN [lom |-> lom, recorded |-> FALSE]
    ELSE
    LET order_data == [timestamp |-> t, order_id |-> order.order_id, symbol |-> order.symbol,
                       side |-> order.side, quantity |-> order.quantity, price |-> order.price,
                       account_id |-> order.account_id, gateway_name |-> order.gateway_name]
        trimmed == IF Len(lom.large_orders) >= lom.max_memory_orders
                   THEN Tail(lom.large_orders) ELSE lom.large_orders
        in_memory == [lom EXCEPT !.large_orders = Append(trimmed, order_data)]
        filename == <<t, ms>>
        symbol == order.symbol
        entry == IF symbol \in DOMAIN lom.order_index THEN lom.order_index[symbol] ELSE <<>>
    IN IF io = "fail" THEN [lom |-> in_memory, recorded |-> FALSE]
       ELSE [lom |-> [in_memory EXCEPT
                        !.files = [f \in DOMAIN lom.files \cup {filename} |->
                                      IF f = filename THEN order_data ELSE lom.files[f]],
                        !.order_index =
                            IF symbol = None \/ symbol = "" THEN lom.order_index
                            ELSE [s \in DOMAIN lom.order_index \cup {symbol} |->
                                     IF s = symbol THEN Append(entry, filename)
                                     ELSE lom.order_index[s]]],
             recorded |-> TRUE]

-----------------------------------------------------------------------------
(* ExecutionEngine *)

OrderHistoryCap == 10000

\* ExecutionEngine(acc_mgr, gateways): the adapters of the repository, and the
\* account main() adds
Gateways == {"polymarket", "binance"}

Accounts ==
    [a \in {"main_account"} |->
        AccountInfo(a, [x \in {"USDC"} |-> 10000], <<>>)]

\* the venue adapter as the engine sees it: the send_order calls made and the
\* orders the venue took
GatewayInit == [g \in Gateways |-> [calls |-> 0, sent |-> <<>>]]

SendCalls(gw) == gw["polymarket"].calls + gw["binance"].calls

\* the engine and everything submit_order can change
Engine(os, rm, la, lom, oh, gw) ==
    [orders |-> os, risk_manager |-> rm, liquidity_analyzer |-> la,
     large_order_monitor |-> lom, order_history |-> oh, gateway |-> gw]

_validate_order(order) ==
    IF order.order_id = "" \/ order.order_id = None
    THEN [valid |-> FALSE, message |-> "order id is required"]
    ELSE IF order.instrument = NoInstrument
    THEN [valid |-> FALSE, message |-> "instrument is required"]
    ELSE IF order.side = None
    THEN [valid |-> FALSE, message |-> "side is required"]
    ELSE IF order.type = None
    THEN [valid |-> FALSE, message |-> "type is required"]
    ELSE IF order.quantity <= 0
    THEN [valid |-> FALSE, message |-> "quantity must be positive"]
    ELSE IF order.instrument.gateway_name \notin Gateways
    THEN [valid |-> FALSE, message |-> "gateway not available"]
    ELSE [valid |-> TRUE, message |-> "order validated"]

Step(step, status, message) == [step |-> step, status |-> status, message |-> message]

Result(order, status, message, steps) ==
    [order_id |-> order.order_id, status |-> status, message |-> message, steps |-> steps,
     gateway_order_id |-> IF status = "submitted" THEN order.gateway_order_id ELSE <<>>]

SetOrder(eng, ref, order) == [eng EXCEPT !.orders[ref] = order]

\* an early return of submit_order with a rejection (lines 41-46, 54-59, 69-74)
Rejected(eng, ref, message, steps) ==
    LET order == [eng.orders[ref] EXCEPT !.status = "rejected"]
    IN [eng |-> SetOrder(eng, ref, order), raised |-> FALSE,
        result |-> Result(order, "rejected", message, steps)]

\* the except branch of submit_order (lines 141-160)
Failed(eng, ref, error, steps) ==
    LET order == [eng.orders[ref] EXCEPT !.status = "rejected"]
    IN [eng |-> SetOrder(eng, ref, order), raised |-> FALSE,
        result |-> Result(order, "error", <<"unexpected error: ", error>>,
                          Append(steps, Step("execution", "error", error)))]

_record_order_history(oh, order, result, t) ==
    LET history_entry ==
            [timestamp |-> t, order_id |-> order.order_id,
             instrument |-> order.instrument.symbol, side |-> order.side,
             type |-> order.type, quantity |-> order.quantity, price |-> order.price,
             account_id |-> order.account_id, status |-> order.status,
             gateway_order_id |-> order.gateway_order_id, execution_result |-> result]
    IN Append(IF Len(oh) >= OrderHistoryCap THEN Tail(oh) ELSE oh, history_entry)

\* the post-dispatch steps without the call of record_trade
AfterDispatch_NoRecordTrade(eng, ref, gw_order_id, steps, env, t) ==
    LET order == [eng.orders[ref] EXCEPT !.gateway_order_id = <<gw_order_id>>,
                                         !.status = "submitted"]
        result == Result(order, "submitted", "order submitted",
                         Append(steps, Step("execution", "success", None)))
        executed_price == PriceOr1(order.price)
        la == IF env.sample = "fail" THEN eng.liquidity_analyzer
              ELSE add_historical_data(eng.liquidity_analyzer, order.instrument.symbol, t,
                                       executed_price, executed_price, order.quantity)
        oh == IF env.history = "fail" THEN eng.order_history
              ELSE _record_order_history(eng.order_history, order, result, t)
    IN [eng |-> [SetOrder(eng, ref, order) EXCEPT !.liquidity_analyzer = la,
                                                   !.order_history = oh],
        raised |-> FALSE, result |-> result]

\* post-dispatch steps in which a failure of the history recording is not caught where
\* it happens and reaches the except branch of submit_order
AfterDispatch_HistoryRaises(eng, ref, gw_order_id, steps, env, t) ==
    LET order == [eng.orders[ref] EXCEPT !.gateway_order_id = <<gw_order_id>>,
                                         !.status = "submitted"]
        trail == Append(steps, Step("execution", "success", None))
        result == Result(order, "submitted", "order submitted", trail)
        executed_price == PriceOr1(order.price)
        la == IF env.sample = "fail" THEN eng.liquidity_analyzer
              ELSE add_historical_data(eng.liquidity_analyzer, order.instrument.symbol, t,
                                       executed_price, executed_price, order.quantity)
        rm == record_trade(eng.risk_manager, order, executed_price, t)
        oh == _record_order_history(eng.order_history, order, result, t)
        done == [SetOrder(eng, ref, order) EXCEPT !.liquidity_analyzer = la,
                                                  !.risk_manager = rm]
    IN IF env.history = "fail" THEN Failed(done, ref, "history error", trail)
       ELSE [eng |-> [done EXCEPT !.order_history = oh], raised |-> FALSE,
             result |-> result]

\* steps 7 and 8 of submit_order, after the venue returned gw_order_id (lines 115-139);
\* env.sample and env.history say whether add_historical_data and _record_order_history
\* run through or fail inside their own try blocks, which log the error and return
AfterDispatch(eng, ref, gw_order_id, steps, env, t) ==
    LET order == [eng.orders[ref] EXCEPT !.gateway_order_id = <<gw_order_id>>,
                                         !.status = "submitted"]
        result == Result(order, "submitted", "order submitted",
                         Append(steps, Step("execution", "success", None)))
        executed_price == PriceOr1(order.price)
        la == IF env.sample = "fail" THEN eng.liquidity_analyzer
              ELSE add_historical_data(eng.liquidity_analyzer, order.instrument.symbol, t,
                                       executed_price, executed_price, order.quantity)
        rm == record_trade(eng.risk_manager, order, executed_price, t)
        oh == IF env.history = "fail" THEN eng.order_history
              ELSE _record_order_history(eng.order_history, order, result, t)
    IN [eng |-> [SetOrder(eng, ref, order) EXCEPT !.liquidity_analyzer = la,
                                                   !.risk_manager = rm,
                                                   !.order_history = oh],
        raised |-> FALSE, result |-> result]

\* step 6 of submit_order (lines 103-122); env.send is what the venue adapter does
Dispatch(eng, ref, steps, env, t) ==
    LET order == eng.orders[ref]
        gateway_name == order.instrument.gateway_name
        called == [eng EXCEPT !.gateway[gateway_name].calls = @ + 1]
    IN IF order.instrument.gateway_name \notin Gateways
       THEN Rejected(eng, ref, "gateway not available",
                     Append(steps, Step("execution", "failed", "gateway not available")))
       ELSE IF env.send = "raise"
       THEN Failed(called, ref, "venue error", steps)
       ELSE AfterDispatch([called EXCEPT !.gateway[gateway_name].sent =
                                              Append(@, order.order_id)],
                          ref, SendCalls(called.gateway), steps, env, t)

\* steps 4 and 5 made blocking: a LOW rating or an unrecorded large order rejects
LiquidityAndLargeOrder_Blocking(eng, ref, steps, env, t) ==
    LET order == eng.orders[ref]
        a == analyze_liquidity(eng.liquidity_analyzer, order.instrument.symbol,
                               order.quantity, t)
        large_order_info ==
            [order_id |-> order.order_id, symbol |-> order.instrument.symbol,
             side |-> order.side, quantity |-> order.quantity, price |-> order.price,
             account_id |-> order.account_id, gateway_name |-> order.instrument.gateway_name]
        r == record_large_order(eng.large_order_monitor, large_order_info, t, env.io, env.ms)
        after == [eng EXCEPT !.liquidity_analyzer = a.la, !.large_order_monitor = r.lom]
    IN IF a.result.liquidity_rating = "LOW" /\ ~r.recorded
       THEN Rejected(after, ref, "low liquidity",
                     Append(steps, Step("liquidity_analysis", "failed", a.result.message)))
       ELSE Dispatch(after, ref,
                     steps \o <<Step("liquidity_analysis", "warning", a.result.message),
                                [step |-> "large_order_check", status |-> "success",
                                 recorded |-> r.recorded]>>, env, t)

\* steps 4 and 5 of submit_order (lines 78-101)
LiquidityAndLargeOrder(eng, ref, steps, env, t) ==
    LET order == eng.orders[ref]
        a == analyze_liquidity(eng.liquidity_analyzer, order.instrument.symbol,
                               order.quantity, t)
        liquidity_step ==
            Step("liquidity_analysis",
                 IF a.result.liquidity_rating = "LOW" THEN "warning" ELSE "success",
                 a.result.message)
        large_order_info ==
            [order_id |-> order.order_id, symbol |-> order.instrument.symbol,
             side |-> order.side, quantity |-> order.quantity, price |-> order.price,
             account_id |-> order.account_id, gateway_name |-> order.instrument.gateway_name]
        r == record_large_order(eng.large_order_monitor, large_order_info, t, env.io, env.ms)
        large_step == [step |-> "large_order_check", status |-> "success",
                       recorded |-> r.recorded]
    IN Dispatch([eng EXCEPT !.liquidity_analyzer = a.la, !.large_order_monitor = r.lom],
                ref, steps \o <<liquidity_step, large_step>>, env, t)

\* step 3 with the verdict of check_order ignored
RiskCheck_IgnoresVerdict(eng, ref, steps, env, t) ==
    LET order == eng.orders[ref]
    IN IF order.account_id \notin DOMAIN Accounts
       THEN Failed(eng, ref, "KeyError", steps)
       ELSE LET c == check_order(eng.risk_manager, Accounts[order.account_id], order, t)
            IN LiquidityAndLargeOrder([eng EXCEPT !.risk_manager = c.rm], ref,
                                      Append(steps, Step("risk_check", "success", None)),
                                      env, t)

\* step 3 of submit_order (lines 66-76)
RiskCheck(eng, ref, steps, env, t) ==
    LET order == eng.orders[ref]
    IN IF order.account_id \notin DOMAIN Accounts
       THEN Failed(eng, ref, "KeyError", steps)
       ELSE LET c == check_order(eng.risk_manager, Accounts[order.account_id], order, t)
                checked == [eng EXCEPT !.risk_manager = c.rm]
            IN IF ~c.verdict
               THEN Rejected(checked, ref, "risk check failed",
                             Append(steps, Step("risk_check", "failed",
                                                "insufficient funds or risk limit exceeded")))
               ELSE LiquidityAndLargeOrder(checked, ref,
                                           Append(steps, Step("risk_check", "success", None)),
                                           env, t)

\* step 2 of submit_order (lines 50-64)
ProbabilityCheck(eng, ref, market_probabilities, steps, env, t) ==
    LET prob_analysis == analyze_market_probabilities(market_probabilities)
    IN IF market_probabilities.kind # "dict"
       THEN RiskCheck(eng, ref, steps, env, t)
       ELSE IF ~prob_analysis.can_trade
       THEN Rejected(eng, ref, prob_analysis.message,
                     Append(steps, Step("probability_check", "failed", prob_analysis.message)))
       ELSE RiskCheck(eng, ref,
                      Append(steps, Step("probability_check",
                                         IF prob_analysis.message # None
                                         THEN "warning" ELSE "success",
                                         prob_analysis.message)),
                      env, t)

\* submit_order(order, market_probabilities); ref names the Order object, None for
\* a call without one
submit_order(eng, ref, market_probabilities, env, t) ==
    IF ref = None
    THEN [eng |-> eng, raised |-> TRUE, result |-> "AttributeError"]
    ELSE LET validation_result == _validate_order(eng.orders[ref])
         IN IF ~validation_result.valid
            THEN Rejected(eng, ref, validation_result.message,
                          <<Step("validation", "failed", validation_result.message)>>)
            ELSE ProbabilityCheck(eng, ref, market_probabilities,
                                  <<Step("validation", "success", None)>>, env, t)

\* submit_orders_batch from entry i on; results are the counts and details so far
RECURSIVE BatchLoop(_, _, _, _, _, _)
BatchLoop(eng, entries, envs, i, results, t) ==
    IF i > Len(entries) THEN [eng |-> eng, raised |-> FALSE, result |-> results]
    ELSE
    LET entry == entries[i]
        r == submit_order(eng, entry.ref, entry.market_probabilities, envs[i], t)
        status == r.result.status
        counted ==
            [results EXCEPT
                !.details = Append(@, r.result),
                !.submitted = IF status = "submitted" THEN @ + 1 ELSE @,
                !.rejected = IF status = "rejected" THEN @ + 1 ELSE @,
                !.errors = IF status \notin {"submitted", "rejected"} THEN @ + 1 ELSE @]
        \* the except branch (lines 185-203) reads order.order_id again
        caught ==
            [results EXCEPT
                !.errors = @ + 1,
                !.details = Append(@, [order_id |-> eng.orders[entry.ref].order_id,
                                       status |-> "error", message |-> r.result])]
    IN IF ~r.raised THEN BatchLoop(r.eng, entries, envs, i + 1, counted, t)
       ELSE IF entry.ref = None
       THEN [eng |-> r.eng, raised |-> TRUE, result |-> "AttributeError"]
       ELSE BatchLoop(r.eng, entries, envs, i + 1, caught, t)

submit_orders_batch(eng, entries, envs, t) ==
    BatchLoop(eng, entries, envs, 1,
              [total |-> Len(entries), submitted |-> 0, rejected |-> 0, errors |-> 0,
               details |-> <<>>], t)

\* order_entry.get('gateway_name', 'polymarket')
EntryGateway(order_entry) ==
    IF "gateway_name" \in DOMAIN order_entry THEN order_entry.gateway_name
    ELSE "polymarket"

\* the loop of sync_order_status over _order_history from entry i on (lines
\* 292-308).  venue[id] is what get_order_status(id) does: it raises, returns
\* an empty answer, or returns a status.  polled lists the adapters asked.
RECURSIVE SyncScan(_, _, _, _, _)
SyncScan(oh, i, order_id, venue, polled) ==
    IF i > Len(oh) THEN [result |-> <<>>, polled |-> polled]
    ELSE LET order_entry == oh[i]
             gateway_name == EntryGateway(order_entry)
             gateway_order_id == order_entry.gateway_order_id
             order_status == venue[gateway_order_id[1]]
             asked == Append(polled, gateway_name)
         IN IF order_entry.order_id # order_id
            THEN SyncScan(oh, i + 1, order_id, venue, polled)
            ELSE IF gateway_name \notin Gateways \/ gateway_order_id = <<>>
            THEN SyncScan(oh, i + 1, order_id, venue, polled)
            ELSE IF order_status.kind = "raises"
            THEN [result |-> <<>>, polled |-> asked]
            ELSE IF order_status.kind = "empty"
            THEN SyncScan(oh, i + 1, order_id, venue, asked)
            ELSE [result |-> <<[status |-> order_status.status,
                                filled_size |-> order_status.filled_size,
                                order_id |-> order_id,
                                gateway_order_id |-> gateway_order_id[1]]>>,
                  polled |-> asked]

\* a sync that copies the venue's filled size into the Order object
sync_order_status_copies_fill(eng, order_id, venue) ==
    LET r == SyncScan(eng.order_history, 1, order_id, venue, <<>>)
    IN [eng |-> IF r.result = <<>> THEN eng
                ELSE [eng EXCEPT !.orders[order_id].filled_qty = r.result[1].filled_size],
        result |-> r.result, polled |-> r.polled]

\* sync_order_status(order_id): it returns the venue's answer and writes nothing
sync_order_status(eng, order_id, venue) ==
    LET r == SyncScan(eng.order_history, 1, order_id, venue, <<>>)
    IN [eng |-> eng, result |-> r.result, polled |-> r.polled]

\* active_orders of sync_all_orders (lines 328-329)
ActiveOrders(oh) ==
    SelectSeq(oh, LAMBDA order : order.status \in {"submitted", "partially_filled"})

\* the loop of sync_all_orders over active_orders from entry i on (lines 333-344)
RECURSIVE SyncLoop(_, _, _, _, _)
SyncLoop(eng, active_orders, i, venue, results) ==
    IF i > Len(active_orders) THEN [eng |-> eng, result |-> results]
    ELSE LET r == sync_order_status(eng, active_orders[i].order_id, venue)
         IN SyncLoop(r.eng, active_orders, i + 1, venue,
                     IF r.result = <<>> THEN results
                     ELSE [results EXCEPT !.updated = @ + 1,
                                          !.details = Append(@, r.result[1])])

sync_all_orders(eng, venue) ==
    LET active_orders == ActiveOrders(eng.order_history)
    IN SyncLoop(eng, active_orders, 1, venue,
                [total |-> Len(active_orders), updated |-> 0, errors |-> 0,
                 details |-> <<>>])

-----------------------------------------------------------------------------
(* The engine and its callers *)

OrderRefs == {"o1", "o2"}

\* time passes between calls
Tick ==
    /\ now < MaxTime
    /\ now' = now + 1
    /\ last' = [op |-> "tick"]
    /\ UNCHANGED <<threads, orders, risk_manager, liquidity_analyzer, large_order_monitor,
                   order_history, gateway, strategy_executor>>


MarketOrder(ref, instrument, side, quantity) ==
    Order(ref, instrument, side, "market", quantity, <<>>, "main_account")

BaseOrder(ref) == MarketOrder(ref, InstPoly, "buy", 100)

\* well-formed orders, and orders with one field missing or wrong
OrderInputs(ref) ==
    { MarketOrder(ref, InstPoly, "buy", 1), BaseOrder(ref),
      MarketOrder(ref, InstBinance, "buy", 100),
      Order(ref, InstPoly, "buy", "limit", 100, <<2>>, "main_account"),
      [BaseOrder(ref) EXCEPT !.order_id = ""],
      [BaseOrder(ref) EXCEPT !.instrument = NoInstrument],
      [BaseOrder(ref) EXCEPT !.side = None],
      [BaseOrder(ref) EXCEPT !.type = None],
      [BaseOrder(ref) EXCEPT !.quantity = 0],
      [BaseOrder(ref) EXCEPT !.instrument = Instrument("m1", "USDC", "kraken")],
      [BaseOrder(ref) EXCEPT !.account_id = None] }

ProbabilityInputs ==
    { NoProbabilities, EmptyProbabilities, Probabilities(60, 38), Probabilities(50, 42),
      Probabilities(50, 35) }

\* what the surroundings do during one submit_order: the venue adapter returns an
\* id or raises, the large-order file is written or the write fails
Envs ==
    [send : {"ok", "raise"}, io : {"ok", "fail"}, ms : {0}, sample : {"ok"}, history : {"ok"}]

EngineNow ==
    Engine(orders, risk_manager, liquidity_analyzer, large_order_monitor,
           order_history, gateway)

Installs(eng) ==
    /\ orders' = eng.orders
    /\ risk_manager' = eng.risk_manager
    /\ liquidity_analyzer' = eng.liquidity_analyzer
    /\ large_order_monitor' = eng.large_order_monitor
    /\ order_history' = eng.order_history
    /\ gateway' = eng.gateway

Init ==
    /\ now = 0
    /\ threads = <<>>
    /\ orders \in [OrderRefs -> UNION {OrderInputs(r) : r \in OrderRefs}]
    /\ \A r \in OrderRefs : orders[r] \in OrderInputs(r)
    /\ orders["o2"] = BaseOrder("o2")
    /\ risk_manager = RiskManagerInit(0)
    /\ liquidity_analyzer = LiquidityAnalyzerInit
    /\ large_order_monitor = LargeOrderMonitorInit
    /\ order_history = <<>>
    /\ gateway = GatewayInit
    /\ strategy_executor = <<>>
    /\ last = Idle

\* engine.submit_order(order, market_probabilities)
SubmitOrder ==
    \E ref \in OrderRefs \cup {None}, market_probabilities \in ProbabilityInputs, env \in Envs :
        /\ SendCalls(gateway) < MaxSends
        /\ LET r == submit_order(EngineNow, ref, market_probabilities, env, now)
           IN /\ Installs(r.eng)
              /\ last' = [op |-> "submit_order", ref |-> ref,
                          market_probabilities |-> market_probabilities,
                          raised |-> r.raised, result |-> r.result]
        /\ UNCHANGED <<threads, now, strategy_executor>>

\* the strategy executor submits its batches without probabilities
BatchEntries == [ref : OrderRefs \cup {None}, market_probabilities : {NoProbabilities}]

\* engine.submit_orders_batch(orders)
SubmitOrdersBatch ==
    \E n \in 1..MaxBatch :
        \E entries \in [1..n -> BatchEntries], envs \in [1..n -> Envs] :
            /\ SendCalls(gateway) + n <= MaxSends
            /\ LET r == submit_orders_batch(EngineNow, entries, envs, now)
               IN /\ Installs(r.eng)
                  /\ last' = [op |-> "submit_orders_batch", entries |-> entries,
                              raised |-> r.raised, result |-> r.result]
            /\ UNCHANGED <<threads, now, strategy_executor>>

Next == SubmitOrder \/ SubmitOrdersBatch

Spec == Init /\ [][Next]_vars

-----------------------------------------------------------------------------
(* The RiskManager on its own: check_order and record_trade called directly *)


RiskAccountInputs ==
    { AccountInfo("main_account", b, p) :
        b \in { [a \in Assets |-> IF a = "USDC" THEN 150 ELSE 0],
                [a \in Assets |-> IF a = "USDT" THEN 150 ELSE 0] },
        p \in { <<>>, <<Position(100, 2), Position(100, 2)>> } }

RiskOrderInputs ==
    { Order("id1", i, "buy", IF p = <<>> THEN "market" ELSE "limit", q, p, "main_account") :
        i \in {InstPoly, InstBinance}, q \in {1, 100}, p \in {<<>>, <<2>>} }
    \cup { Order("id1", InstPoly, "buy", "limit", 100, <<0>>, "main_account") }

RiskTradeInputs ==
    { Order("id1", InstPoly, sd, "market", 100, <<>>, "main_account") : sd \in {"buy", "sell"} }

InitRisk ==
    /\ now = 0
    /\ threads = <<>>
    /\ orders = <<>>
    /\ risk_manager = RiskManagerInit(0)
    /\ liquidity_analyzer = <<>>
    /\ large_order_monitor = <<>>
    /\ order_history = <<>>
    /\ gateway = <<>>
    /\ strategy_executor = <<>>
    /\ last = Idle

engine_unchanged ==
    UNCHANGED <<threads, orders, liquidity_analyzer, large_order_monitor, order_history, gateway,
                strategy_executor>>

\* risk_manager.check_order(account, order)
CheckOrder ==
    \E account \in RiskAccountInputs, order \in RiskOrderInputs :
        LET r == check_order(risk_manager, account, order, now)
        IN /\ risk_manager' = r.rm
           /\ last' = [op |-> "check_order", account |-> account, order |-> order,
                       verdict |-> r.verdict, before |-> risk_manager]
           /\ UNCHANGED now
           /\ engine_unchanged

\* risk_manager.record_trade(order, executed_price)
RecordTrade ==
    \E order \in RiskTradeInputs :
        /\ Len(risk_manager.trade_history) < MaxTrades
        /\ risk_manager' = record_trade(risk_manager, order, PriceOr1(order.price), now)
        /\ last' = [op |-> "record_trade", order |-> order]
        /\ UNCHANGED now
        /\ engine_unchanged

NextRisk == Tick \/ CheckOrder \/ RecordTrade

SpecRisk == InitRisk /\ [][NextRisk]_vars

-----------------------------------------------------------------------------
(* StrategyExecutor (strategy/strategy_executor.py): event handling *)

\* the defaults of the event_subscription configuration (lines 39-46), with one
\* subscribed event; cooldown_period is 60 seconds, one minute of the clock
subscribed_events == {"cpi"}
event_min_confidence == "MEDIUM"
max_orders_per_event == 5
order_size_multiplier == 1
cooldown_period == MinuteTicks

\* executor_config check_interval (30 seconds by default), here a short one
check_interval == 2

EventNames == {"cpi", "nfp"}

confidence_levels(confidence) ==
    CASE confidence = "LOW" -> 1
      [] confidence = "MEDIUM" -> 2
      [] confidence = "HIGH" -> 3
      [] OTHER -> 0

_is_in_cooldown(se, event_name, t) == t < Get(se._event_cooldowns, event_name)

_set_cooldown(se, event_name, t) ==
    [se EXCEPT !._event_cooldowns =
        [e \in DOMAIN @ \cup {event_name} |->
            IF e = event_name THEN t + cooldown_period ELSE @[e]]]

_is_valid_event_signal(signal, order_size) ==
    /\ signal.signal # "HOLD"
    /\ confidence_levels(signal.confidence) >= confidence_levels(event_min_confidence)
    /\ order_size > 0

\* _create_order_from_event returns None without a market id or without market
\* information; otherwise it calls Order(..., timestamp=...), and Order has no
\* field timestamp (core/models.py:16-29): the constructor raises TypeError,
\* the handler at line 794 catches it and the method returns None.
_create_order_from_event(signal, market_id, order_size, market_info) ==
    IF market_id = None THEN <<>>
    ELSE IF market_info = "none" THEN <<>>
    ELSE <<>>

\* the loop of handle_event that prepares the orders (lines 583-622)
RECURSIVE EventOrders(_, _, _)
EventOrders(results, orders_so_far, market_info) ==
    IF results = <<>> THEN orders_so_far
    ELSE LET result == Head(results)
             order_size == result.order_size * order_size_multiplier
             order == _create_order_from_event(result.signal, result.market_id,
                                               order_size, market_info)
         IN IF result.error THEN EventOrders(Tail(results), orders_so_far, market_info)
            ELSE IF ~_is_valid_event_signal(result.signal, order_size)
            THEN EventOrders(Tail(results), orders_so_far, market_info)
            ELSE IF Len(orders_so_far) >= max_orders_per_event THEN orders_so_far
            ELSE EventOrders(Tail(results), orders_so_far \o order, market_info)

EventReply(event_name, status, order_status, order_count) ==
    [event_name |-> event_name, status |-> status, order_status |-> order_status,
     order_count |-> order_count]

\* handle_event with _set_cooldown moved out of the branch of line 626: the
\* cooldown is set after every processed event with results
handle_event_always_cools(se, event_name, event_result, market_info, t) ==
    IF ~se.event_subscription_enabled
    THEN [se |-> se, result |-> EventReply(event_name, "disabled", None, 0)]
    ELSE IF event_name \notin subscribed_events
    THEN [se |-> se, result |-> EventReply(event_name, "not_subscribed", None, 0)]
    ELSE IF _is_in_cooldown(se, event_name, t)
    THEN [se |-> se, result |-> EventReply(event_name, "cooldown", None, 0)]
    ELSE IF event_result.status # "processed"
    THEN [se |-> se, result |-> EventReply(event_name, event_result.status, None, 0)]
    ELSE IF event_result.results = <<>>
    THEN [se |-> se, result |-> EventReply(event_name, "processed", "no_orders", 0)]
    ELSE LET event_orders == EventOrders(event_result.results, <<>>, market_info)
         IN [se |-> _set_cooldown(se, event_name, t),
             result |-> EventReply(event_name, "processed",
                                   IF event_orders # <<>> THEN "submitted" ELSE "no_orders",
                                   Len(event_orders))]

\* handle_event(event_name, event_data); event_result is what
\* polymarket_strategy.handle_event_trigger returns for the event, market_info
\* what the gateway's get_market returns.  With orders the batch goes to the
\* engine's submit_orders_batch and the cooldown is set.
handle_event(se, event_name, event_result, market_info, t) ==
    IF ~se.event_subscription_enabled
    THEN [se |-> se, result |-> EventReply(event_name, "disabled", None, 0)]
    ELSE IF event_name \notin subscribed_events
    THEN [se |-> se, result |-> EventReply(event_name, "not_subscribed", None, 0)]
    ELSE IF _is_in_cooldown(se, event_name, t)
    THEN [se |-> se, result |-> EventReply(event_name, "cooldown", None, 0)]
    ELSE IF event_result.status # "processed"
    THEN [se |-> se, result |-> EventReply(event_name, event_result.status, None, 0)]
    ELSE IF event_result.results = <<>>
    THEN [se |-> se, result |-> EventReply(event_name, "processed", "no_orders", 0)]
    ELSE LET event_orders == EventOrders(event_result.results, <<>>, market_info)
         IN IF event_orders # <<>>
            THEN [se |-> _set_cooldown(se, event_name, t),
                  result |-> EventReply(event_name, "processed", "submitted",
                                        Len(event_orders))]
            ELSE [se |-> se,
                  result |-> EventReply(event_name, "processed", "no_orders", 0)]

-----------------------------------------------------------------------------
(* StrategyExecutor: the scheduler thread, start() and stop() *)

\* _thread is 0 for None, else the index of the thread in threads; threads[i]
\* is where loop thread i stands in _run_loop: "check" at the while test,
\* "executing" inside _execute_strategy, "waiting" in the sleep loop, "exited".
\* slept[i] is <<>> while thread i has not entered the sleep loop, else <<n>>
\* after n calls of time.sleep(1) in its latest sleep loop.
\* joining: the caller of stop() is blocked in _thread.join(timeout=10).
StrategyExecutorInit(enabled, monitored_markets) ==
    [enabled |-> enabled, event_subscription_enabled |-> TRUE,
     monitored_markets |-> monitored_markets,
     _running |-> FALSE, _thread |-> 0, _stop_event |-> FALSE,
     _event_cooldowns |-> <<>>, threads |-> <<>>, slept |-> <<>>, joining |-> FALSE]

Alive(se) == {i \in DOMAIN se.threads : se.threads[i] # "exited"}

\* start() (lines 73-87)
start(se) ==
    IF ~se.enabled THEN se
    ELSE IF se._running THEN se
    ELSE [se EXCEPT !._running = TRUE, !._stop_event = FALSE,
                    !.threads = Append(@, "check"), !.slept = Append(@, <<>>),
                    !._thread = Len(se.threads) + 1]

\* stop() up to the join (lines 89-97)
stop_begin(se) ==
    IF ~se._running THEN se
    ELSE IF se._thread # 0
    THEN [se EXCEPT !._stop_event = TRUE, !.joining = TRUE]
    ELSE [se EXCEPT !._stop_event = TRUE, !._running = FALSE]

\* stop() after join returned (lines 97-99)
stop_end(se) == [se EXCEPT !._running = FALSE, !.joining = FALSE]

\* join(timeout=10) returns when the thread has exited, or on the timeout; the
\* sleep loop looks at the stop event every second, _execute_strategy does not
JoinCanReturn(se) ==
    se.threads[se._thread] = "exited" \/ se.threads[se._thread] = "executing"

\* a pass that raises ends the thread: _run_loop without its try/except
_run_loop_unguarded(se, i, outcome) ==
    LET pc == se.threads[i]
    IN IF pc = "check"
       THEN (IF se._stop_event THEN [se EXCEPT !.threads[i] = "exited"]
             ELSE IF se.monitored_markets # <<>> THEN [se EXCEPT !.threads[i] = "executing"]
             ELSE [se EXCEPT !.threads[i] = "waiting", !.slept[i] = <<0>>])
       ELSE IF pc = "executing"
       THEN (IF outcome = "raise" THEN [se EXCEPT !.threads[i] = "exited"]
             ELSE [se EXCEPT !.threads[i] = "waiting", !.slept[i] = <<0>>])
       ELSE IF se.slept[i][1] >= check_interval \/ se._stop_event
       THEN [se EXCEPT !.threads[i] = "check"]
       ELSE [se EXCEPT !.slept[i] = <<@[1] + 1>>]

\* the sleep loop is entered only on the second turn of the while loop: the
\* wait comes before the pass instead of after it
_run_loop_sleep_first(se, i, outcome) ==
    LET pc == se.threads[i]
    IN IF pc = "check"
       THEN (IF se._stop_event THEN [se EXCEPT !.threads[i] = "exited"]
             ELSE IF se.slept[i] # <<check_interval>>
             THEN [se EXCEPT !.threads[i] = "waiting", !.slept[i] = <<0>>]
             ELSE IF se.monitored_markets # <<>>
             THEN [se EXCEPT !.threads[i] = "executing"]
             ELSE [se EXCEPT !.threads[i] = "waiting", !.slept[i] = <<0>>])
       ELSE IF pc = "executing"
       THEN [se EXCEPT !.threads[i] = "check", !.slept[i] = <<>>]
       ELSE IF se.slept[i][1] >= check_interval \/ se._stop_event
       THEN [se EXCEPT !.threads[i] = "check"]
       ELSE [se EXCEPT !.slept[i] = <<@[1] + 1>>]

\* one step of loop thread i in _run_loop (lines 130-145). At the while test
\* the thread exits when the stop event is set, else runs _execute_strategy
\* when a market is monitored; the pass ends normally or by an exception that
\* the handler at lines 138-139 logs; then the sleep loop makes up to
\* check_interval calls of time.sleep(1), leaving early when the stop event is
\* set. _execute_strategy submits nothing, because _create_order fails like
\* _create_order_from_event
_run_loop(se, i, outcome) ==
    LET pc == se.threads[i]
    IN IF pc = "check"
       THEN (IF se._stop_event THEN [se EXCEPT !.threads[i] = "exited"]
             ELSE IF se.monitored_markets # <<>> THEN [se EXCEPT !.threads[i] = "executing"]
             ELSE [se EXCEPT !.threads[i] = "waiting", !.slept[i] = <<0>>])
       ELSE IF pc = "executing"
       THEN [se EXCEPT !.threads[i] = "waiting", !.slept[i] = <<0>>]
       ELSE IF se.slept[i][1] >= check_interval \/ se._stop_event
       THEN [se EXCEPT !.threads[i] = "check"]
       ELSE [se EXCEPT !.slept[i] = <<@[1] + 1>>]

-----------------------------------------------------------------------------
(* StrategyExecutor and PolymarketStrategy: M-choose-N *)

min_confidence == "MEDIUM"

\* recommendation.get('order_size', Decimal('0'))
OrderSizeOf(recommendation) ==
    IF "order_size" \in DOMAIN recommendation THEN recommendation.order_size ELSE 0

_is_valid_recommendation(recommendation) ==
    /\ recommendation.signal # "HOLD"
    /\ confidence_levels(recommendation.confidence) >= confidence_levels(min_confidence)
    /\ OrderSizeOf(recommendation) > 0
    /\ recommendation.market_id # ""

\* list.sort(key=confidence level, reverse=True): stable, highest level first
SortByConfidence(recommendations) ==
    LET level(k) == SelectSeq(recommendations, LAMBDA r : confidence_levels(r.confidence) = k)
    IN level(3) \o level(2) \o level(1) \o level(0)

Take(seq, n) == SubSeq(seq, 1, IF n < Len(seq) THEN n ELSE Len(seq))

\* the first n valid recommendations in the order the strategy returned them
select_recommendations_unsorted(valid_recommendations, n) ==
    IF Len(valid_recommendations) > n
    THEN Take(valid_recommendations, n)
    ELSE valid_recommendations

\* execute_m_choose_n_strategy, lines 257-265
select_recommendations(valid_recommendations, n) ==
    IF Len(valid_recommendations) > n
    THEN Take(SortByConfidence(valid_recommendations), n)
    ELSE valid_recommendations

\* the checks of n without the upper one
check_n_no_upper(n, m) ==
    IF n <= 0 THEN "n must be greater than 0" ELSE None

\* the checks of n without the lower one
check_n_no_lower(n, m) ==
    IF n > m THEN "n greater than m" ELSE None

\* the two checks of n against the number m of outcomes
\* (strategy_executor.py:225-237, polymarket_strategy.py:629-635)
check_n(n, m) ==
    IF n > m THEN "n greater than m"
    ELSE IF n <= 0 THEN "n must be greater than 0"
    ELSE None

\* _create_order returns None without a market id or without market information;
\* otherwise it calls Order(..., timestamp=...), which raises TypeError as in
\* _create_order_from_event; the handler at line 502 returns None.
_create_order(recommendation, market_info) ==
    IF recommendation.market_id = "" THEN <<>>
    ELSE IF market_info = "none" \/ market_info = "raises" THEN <<>>
    ELSE <<>>

\* the loop that builds the orders of the selection (lines 269-282)
RECURSIVE BuildOrders(_, _)
BuildOrders(selected_recommendations, market_info) ==
    IF selected_recommendations = <<>> THEN <<>>
    ELSE _create_order(Head(selected_recommendations), market_info)
             \o BuildOrders(Tail(selected_recommendations), market_info)

\* executor_config max_orders_per_batch (10 by default), here a small one
max_orders_per_batch == 2

\* _submit_orders without the slice of line 388
_submit_orders_uncapped(recommendations, market_info) ==
    LET built == BuildOrders(recommendations, market_info)
    IN [capped |-> recommendations, orders |-> built,
        batches |-> IF built # <<>> THEN <<built>> ELSE <<>>]

\* _submit_orders (lines 386-415): the capped list, the orders built from it and the
\* batches handed to execution_engine.submit_orders_batch
_submit_orders(recommendations, market_info) ==
    LET capped == Take(recommendations, max_orders_per_batch)
        built == BuildOrders(capped, market_info)
    IN [capped |-> capped, orders |-> built,
        batches |-> IF built # <<>> THEN <<built>> ELSE <<>>]

\* _process_recommendations (lines 313-336)
_process_recommendations(recommendations, market_info) ==
    LET valid_recommendations == SelectSeq(recommendations, _is_valid_recommendation)
        submission == _submit_orders(valid_recommendations, market_info)
    IN IF valid_recommendations # <<>>
       THEN [valid |-> valid_recommendations, capped |-> submission.capped,
             orders |-> submission.orders, batches |-> submission.batches]
       ELSE [valid |-> <<>>, capped |-> <<>>, orders |-> <<>>, batches |-> <<>>]

MChooseNError(message) ==
    [result |-> [status |-> "error", message |-> message],
     selected |-> <<>>, orders |-> <<>>, submitted |-> FALSE, raised |-> FALSE]

\* what get_market gives: nothing, an exception, or a market with m outcomes
\* (named 1..m)
NoMarket == [status |-> "none", outcomes |-> <<>>]

MarketRaises == [status |-> "raises", outcomes |-> <<>>]

Market(m) == [status |-> "ok", outcomes |-> [i \in 1..m |-> i]]

\* execute_m_choose_n_strategy(market_id, n).  market is what get_market gives,
\* market_recommendations what get_trade_recommendations_for_all_outcomes returns.
execute_m_choose_n_strategy(market_id, n, market, market_recommendations) ==
    IF market.status = "raises" THEN MChooseNError("exception")
    ELSE IF market.status = "none" THEN MChooseNError("no market information")
    ELSE LET m == Len(market.outcomes)
             valid_recommendations ==
                 SelectSeq(market_recommendations, _is_valid_recommendation)
             selected_recommendations == select_recommendations(valid_recommendations, n)
             built == BuildOrders(selected_recommendations, "ok")
         IN IF check_n(n, m) # None THEN MChooseNError(check_n(n, m))
            ELSE [result |-> [status |-> "success", market_id |-> market_id,
                              m |-> m, n |-> n,
                              selected_count |-> Len(selected_recommendations),
                              selected_outcomes |->
                                  [i \in 1..Len(selected_recommendations) |->
                                      selected_recommendations[i].outcome]],
                  selected |-> selected_recommendations,
                  orders |-> built,
                  submitted |-> built # <<>>,
                  raised |-> FALSE]

\* PolymarketStrategy.get_m_choose_n_trade_recommendations(market_id, n);
\* market_info.get on None raises and the handler at line 669 returns []
get_m_choose_n_trade_recommendations(market_id, n, market, all_recommendations) ==
    IF market.status = "raises" \/ market.status = "none" THEN <<>>
    ELSE LET m == Len(market.outcomes)
             valid_recommendations ==
                 SortByConfidence(SelectSeq(all_recommendations,
                                            LAMBDA rec : rec.signal # "HOLD"))
         IN IF check_n(n, m) # None THEN <<>>
            ELSE IF Len(valid_recommendations) > n
            THEN Take(valid_recommendations, n)
            ELSE valid_recommendations

-----------------------------------------------------------------------------
(* The StrategyExecutor and its callers *)

Signal(signal, confidence) == [signal |-> signal, confidence |-> confidence, outcome |-> "Yes"]

EventResultEntry(market_id, error, signal, order_size) ==
    [market_id |-> market_id, error |-> error, signal |-> signal, order_size |-> order_size]

\* what handle_event_trigger can return (polymarket_strategy.py:673-740)
EventResultInputs ==
    { [status |-> "skipped", results |-> <<>>], [status |-> "error", results |-> <<>>],
      [status |-> "processed", results |-> <<>>] }
    \cup { [status |-> "processed", results |-> rs] :
            rs \in { <<EventResultEntry("m1", TRUE, Signal("HOLD", "LOW"), 0)>>,
                     <<EventResultEntry("m1", FALSE, Signal("BUY", "HIGH"), 100)>>,
                     <<EventResultEntry("m1", FALSE, Signal("HOLD", "HIGH"), 100)>>,
                     <<EventResultEntry("m1", FALSE, Signal("BUY", "LOW"), 100)>>,
                     <<EventResultEntry("m1", FALSE, Signal("SELL", "MEDIUM"), 0)>>,
                     <<EventResultEntry("m1", FALSE, Signal("SELL", "MEDIUM"), 100),
                       EventResultEntry("m2", FALSE, Signal("BUY", "HIGH"), 100)>> } }

InitExecutor ==
    /\ now = 0
    /\ threads = <<>>
    /\ orders = <<>>
    /\ risk_manager = <<>>
    /\ liquidity_analyzer = <<>>
    /\ large_order_monitor = <<>>
    /\ order_history = <<>>
    /\ gateway = <<>>
    /\ \E enabled \in BOOLEAN, monitored_markets \in {<<>>, <<"m1">>},
          event_subscription_enabled \in BOOLEAN :
          strategy_executor =
              [StrategyExecutorInit(enabled, monitored_markets)
                  EXCEPT !.event_subscription_enabled = event_subscription_enabled]
    /\ last = Idle

executor_only ==
    UNCHANGED <<threads, now, orders, risk_manager, liquidity_analyzer, large_order_monitor,
                order_history, gateway>>

\* the caller thread is not blocked inside stop()
CallerFree == ~strategy_executor.joining

\* strategy_executor.handle_event(event_name, event_data)
HandleEvent ==
    \E event_name \in EventNames, event_result \in EventResultInputs,
       market_info \in {"ok", "none"} :
        /\ CallerFree
        /\ LET r == handle_event(strategy_executor, event_name, event_result, market_info, now)
           IN /\ strategy_executor' = r.se
              /\ last' = [op |-> "handle_event", event_name |-> event_name,
                          event_result |-> event_result, market_info |-> market_info,
                          result |-> r.result]
        /\ executor_only

\* strategy_executor.start()
Start ==
    /\ CallerFree
    /\ Len(strategy_executor.threads) < MaxThreads
    /\ strategy_executor' = start(strategy_executor)
    /\ last' = [op |-> "start", was_running |-> strategy_executor._running]
    /\ executor_only

\* strategy_executor.stop() is called
StopCall ==
    /\ CallerFree
    /\ strategy_executor' = stop_begin(strategy_executor)
    /\ last' = [op |-> "stop", was_running |-> strategy_executor._running]
    /\ executor_only

\* the join inside stop() returns and stop() finishes
StopReturns ==
    /\ strategy_executor.joining
    /\ JoinCanReturn(strategy_executor)
    /\ strategy_executor' = stop_end(strategy_executor)
    /\ last' = [op |-> "stop_returns"]
    /\ executor_only

\* how a pass can end: normally, or by an exception
PassOutcomes(se, i) == IF se.threads[i] = "executing" THEN {"ok", "raise"} ELSE {"none"}

\* scheduler thread i takes its next step
RunLoopOf(i) ==
    /\ i \in Alive(strategy_executor)
    /\ \E outcome \in PassOutcomes(strategy_executor, i) :
          /\ strategy_executor' = _run_loop(strategy_executor, i, outcome)
          /\ last' = [op |-> "_run_loop", thread |-> i, outcome |-> outcome,
                      from |-> strategy_executor.threads[i],
                      slept |-> strategy_executor.slept[i]]
    /\ executor_only

RunLoop == \E i \in 1..MaxThreads : RunLoopOf(i)

NextExecutor == Tick \/ HandleEvent \/ Start \/ StopCall \/ StopReturns \/ RunLoop

SpecExecutor == InitExecutor /\ [][NextExecutor]_vars

\* a started thread that has not exited keeps being scheduled, and
\* time.sleep(1) returns
SpecExecutorFair == SpecExecutor /\ \A i \in 1..MaxThreads : WF_vars(RunLoopOf(i))

-----------------------------------------------------------------------------
(* The LiquidityAnalyzer on its own: add_historical_data and analyze_liquidity *)

RecencyWindow == RecentDays * DayTicks

\* the analyzer after n trades of the symbol were recorded at time t
RECURSIVE Seeded(_, _, _, _)
Seeded(la, symbol, n, t) ==
    IF n = 0 THEN la
    ELSE Seeded(add_historical_data(la, symbol, t, 1, 1, 100), symbol, n - 1, t)

LiquiditySymbols == {"m1", "m10"}

\* what the callers have seen: for a symbol and size, the result of the latest
\* analysis made since the last sample was added for that symbol
Remember(seen, symbol, target_size, result) ==
    [k \in DOMAIN seen \cup {<<symbol, target_size>>} |->
        IF k = <<symbol, target_size>> THEN result ELSE seen[k]]

Forget(seen, symbol) == [k \in {x \in DOMAIN seen : x[1] # symbol} |-> seen[k]]

InitLiquidity ==
    /\ now = 0
    /\ threads = <<>>
    /\ orders = <<>>
    /\ risk_manager = <<>>
    /\ liquidity_analyzer \in
          { LiquidityAnalyzerInit,
            Seeded(LiquidityAnalyzerInit, "m10", MinTotalSamples, 0) }
    /\ large_order_monitor = <<>>
    /\ order_history = <<>>
    /\ gateway = <<>>
    /\ strategy_executor = <<>>
    /\ last = [op |-> "none", seen |-> <<>>, adds |-> 0]

analyzer_only ==
    UNCHANGED <<threads, orders, risk_manager, large_order_monitor, order_history, gateway,
                strategy_executor>>

\* liquidity_analyzer.analyze_liquidity(symbol, target_size)
AnalyzeLiquidity ==
    \E symbol \in LiquiditySymbols \cup {""}, target_size \in {0, 100} :
        LET r == analyze_liquidity(liquidity_analyzer, symbol, target_size, now)
            key == <<symbol, target_size>>
        IN /\ liquidity_analyzer' = r.la
           /\ last' = [op |-> "analyze_liquidity", symbol |-> symbol,
                       target_size |-> target_size, result |-> r.result,
                       previous |-> IF key \in DOMAIN last.seen
                                    THEN <<last.seen[key]>> ELSE <<>>,
                       seen |-> Remember(last.seen, symbol, target_size, r.result),
                       adds |-> last.adds]
           /\ UNCHANGED now
           /\ analyzer_only

\* liquidity_analyzer.add_historical_data(symbol, now, api_price, executed_price, size)
AddHistoricalData ==
    \E symbol \in LiquiditySymbols, slippage \in {0, 1} :
        /\ last.adds < MaxAdds
        /\ liquidity_analyzer' =
              add_historical_data(liquidity_analyzer, symbol, now, 1, 1 + slippage, 100)
        /\ last' = [op |-> "add_historical_data", symbol |-> symbol,
                    seen |-> Forget(last.seen, symbol), adds |-> last.adds + 1]
        /\ UNCHANGED now
        /\ analyzer_only

\* a recency window of time passes
WeekPasses ==
    /\ now < MaxWeeks * RecencyWindow
    /\ now' = now + RecencyWindow
    /\ last' = [op |-> "time", seen |-> last.seen, adds |-> last.adds]
    /\ UNCHANGED liquidity_analyzer
    /\ analyzer_only

NextLiquidity == AnalyzeLiquidity \/ AddHistoricalData \/ WeekPasses

SpecLiquidity == InitLiquidity /\ [][NextLiquidity]_vars

-----------------------------------------------------------------------------
(* The LargeOrderMonitor on its own *)

ThresholdInputs == {0 - 1, 0, 50, 100}

LargeOrderInputs ==
    { [order_id |-> "id1", symbol |-> "m1", side |-> "buy", quantity |-> q,
       price |-> <<>>, account_id |-> "main_account", gateway_name |-> "polymarket"] :
        q \in {49, 50, 100} }

Constructed(lom) == "threshold" \in DOMAIN lom

InitMonitor ==
    /\ now = 0
    /\ threads = <<>>
    /\ orders = <<>>
    /\ risk_manager = <<>>
    /\ liquidity_analyzer = <<>>
    /\ \E threshold \in ThresholdInputs :
          /\ large_order_monitor = LargeOrderMonitorNew(threshold)
          /\ last = [op |-> "__init__", threshold |-> threshold]
    /\ order_history = <<>>
    /\ gateway = <<>>
    /\ strategy_executor = <<>>

monitor_only ==
    UNCHANGED <<threads, now, orders, risk_manager, liquidity_analyzer, order_history, gateway,
                strategy_executor>>

\* large_order_monitor.set_threshold(threshold)
SetThreshold ==
    \E threshold \in ThresholdInputs :
        /\ Constructed(large_order_monitor)
        /\ LET r == set_threshold(large_order_monitor, threshold)
           IN /\ large_order_monitor' = r.lom
              /\ last' = [op |-> "set_threshold", threshold |-> threshold,
                          result |-> r.result, before |-> large_order_monitor]
        /\ monitor_only

\* large_order_monitor.record_large_order(order)
RecordLargeOrder ==
    \E order \in LargeOrderInputs, io \in {"ok", "fail"}, ms \in {0, 1} :
        /\ Constructed(large_order_monitor)
        /\ Len(large_order_monitor.large_orders) < MaxRecords
        /\ LET r == record_large_order(large_order_monitor, order, now, io, ms)
           IN /\ large_order_monitor' = r.lom
              /\ last' = [op |-> "record_large_order", order |-> order, io |-> io,
                          result |-> r.recorded, before |-> large_order_monitor]
        /\ monitor_only

NextMonitor == SetThreshold \/ RecordLargeOrder

SpecMonitor == InitMonitor /\ [][NextMonitor]_vars

-----------------------------------------------------------------------------
(* The ProbabilityStrategy on its own *)

\* probabilities in percent, with one value below and one above the valid range
ProbabilityValues == (0 - 1)..101

InitProbability ==
    /\ now = 0
    /\ threads = <<>>
    /\ orders = <<>>
    /\ risk_manager = <<>>
    /\ liquidity_analyzer = <<>>
    /\ large_order_monitor = <<>>
    /\ order_history = <<>>
    /\ gateway = <<>>
    /\ strategy_executor = <<>>
    /\ \E p1 \in ProbabilityValues, p2 \in ProbabilityValues :
          last = [op |-> "input", p1 |-> p1, p2 |-> p2]

\* probability_strategy.check_probability(p1, p2)
CheckProbability ==
    /\ last' = [op |-> "check_probability", p1 |-> last.p1, p2 |-> last.p2,
                result |-> check_probability(last.p1, last.p2)]
    /\ UNCHANGED <<threads, now, orders, risk_manager, liquidity_analyzer, large_order_monitor,
                   order_history, gateway, strategy_executor>>

\* probability_strategy.get_trade_recommendation({no_change: p1, decrease_25bps: p2})
GetTradeRecommendation ==
    /\ last' = [op |-> "get_trade_recommendation", p1 |-> last.p1, p2 |-> last.p2,
                result |-> get_trade_recommendation(Probabilities(last.p1, last.p2))]
    /\ UNCHANGED <<threads, now, orders, risk_manager, liquidity_analyzer, large_order_monitor,
                   order_history, gateway, strategy_executor>>

NextProbability == CheckProbability \/ GetTradeRecommendation

SpecProbability == InitProbability /\ [][NextProbability]_vars

-----------------------------------------------------------------------------
(* M-choose-N on its own *)

\* get_trade_recommendation for one outcome: the signal of the strategy with
\* the order size, or HOLD without a size when it failed (lines 309-325)
Recommendation(market_id, outcome, kind) ==
    IF kind.failed
    THEN [market_id |-> market_id, outcome |-> outcome, signal |-> "HOLD",
          confidence |-> "LOW"]
    ELSE [market_id |-> market_id, outcome |-> outcome, signal |-> kind.signal,
          confidence |-> kind.confidence, order_size |-> kind.order_size]

\* signals a strategy object can hand to the executor, sized or with a full position
RecommendationKinds ==
    { [failed |-> TRUE, signal |-> "HOLD", confidence |-> "LOW", order_size |-> 0] }
    \cup { [failed |-> FALSE, signal |-> sc[1], confidence |-> sc[2], order_size |-> z] :
             sc \in { <<"ARBITRAGE", "HIGH">>, <<"BUY", "MEDIUM">>, <<"SELL", "LOW">>,
                      <<"HOLD", "MEDIUM">> },
             z \in {0, 100} }

\* one recommendation per outcome (polymarket_strategy.py:345-351)
RecommendationsFor(market_id, m) ==
    { [i \in 1..m |-> Recommendation(market_id, i, kinds[i])] :
        kinds \in [1..m -> RecommendationKinds] }

NInputs == (0 - 1)..(MaxOutcomes + 1)

InitMChooseN ==
    /\ now = 0
    /\ threads = <<>>
    /\ orders = <<>>
    /\ risk_manager = <<>>
    /\ liquidity_analyzer = <<>>
    /\ large_order_monitor = <<>>
    /\ order_history = <<>>
    /\ gateway = <<>>
    /\ strategy_executor = StrategyExecutorInit(TRUE, <<>>)
    /\ \E n \in NInputs, m \in 0..MaxOutcomes :
         \E market \in {NoMarket, MarketRaises, Market(m)},
            recommendations \in RecommendationsFor("market1", m) :
              last = [op |-> "input", n |-> n, m |-> m, market |-> market,
                      recommendations |-> recommendations]

m_choose_n_only ==
    UNCHANGED <<threads, now, orders, risk_manager, liquidity_analyzer, large_order_monitor,
                order_history, gateway, strategy_executor>>

\* strategy_executor.execute_m_choose_n_strategy("market1", n)
ExecuteMChooseN ==
    /\ last' = [op |-> "execute_m_choose_n_strategy", n |-> last.n, m |-> last.m,
                market |-> last.market, recommendations |-> last.recommendations,
                out |-> execute_m_choose_n_strategy("market1", last.n, last.market,
                                                    last.recommendations)]
    /\ m_choose_n_only

\* polymarket_strategy.get_m_choose_n_trade_recommendations("market1", n)
GetMChooseNTradeRecommendations ==
    /\ last' = [op |-> "get_m_choose_n_trade_recommendations", n |-> last.n,
                m |-> last.m, market |-> last.market,
                recommendations |-> last.recommendations,
                out |-> get_m_choose_n_trade_recommendations("market1", last.n,
                                                             last.market,
                                                             last.recommendations)]
    /\ m_choose_n_only

\* strategy_executor._process_recommendations(recommendations), the second half of a
\* strategy pass
ProcessRecommendations ==
    /\ last.op = "input"
    /\ last' = [op |-> "_process_recommendations", n |-> last.n, m |-> last.m,
                market |-> last.market, recommendations |-> last.recommendations,
                out |-> _process_recommendations(last.recommendations, last.market.status)]
    /\ m_choose_n_only

NextMChooseN == ProcessRecommendations \/ ExecuteMChooseN \/ GetMChooseNTradeRecommendations

SpecMChooseN == InitMChooseN /\ [][NextMChooseN]_vars

-----------------------------------------------------------------------------
(* The engine with the order-status sync *)

\* what get_order_status answers for one venue order id
\* (gateways/polymarket_gateway.py:730-753)
VenueAnswers ==
    { [kind |-> "status", status |-> "filled", filled_size |-> 100],
      [kind |-> "empty", status |-> None, filled_size |-> 0],
      [kind |-> "raises", status |-> None, filled_size |-> 0] }

\* one answer for each venue order id issued so far
Venues == [1..SendCalls(gateway) -> VenueAnswers]

SyncOrderInputs(ref) ==
    { MarketOrder(ref, InstPoly, "buy", 1), MarketOrder(ref, InstBinance, "buy", 1),
      [BaseOrder(ref) EXCEPT !.quantity = 0] }

InitSync ==
    /\ now = 0
    /\ threads = <<>>
    /\ orders \in [OrderRefs -> UNION {SyncOrderInputs(r) : r \in OrderRefs}]
    /\ \A r \in OrderRefs : orders[r] \in SyncOrderInputs(r)
    /\ orders["o2"] = MarketOrder("o2", InstPoly, "buy", 1)
    /\ risk_manager = RiskManagerInit(0)
    /\ liquidity_analyzer = LiquidityAnalyzerInit
    /\ large_order_monitor = LargeOrderMonitorInit
    /\ order_history = <<>>
    /\ gateway = GatewayInit
    /\ strategy_executor = <<>>
    /\ last = Idle

\* engine.submit_order(order) without market probabilities
SubmitPlain ==
    \E ref \in OrderRefs, send \in {"ok", "raise"} :
        /\ SendCalls(gateway) < MaxSends
        /\ LET r == submit_order(EngineNow, ref, NoProbabilities,
                                 [send |-> send, io |-> "ok", ms |-> 0, sample |-> "ok",
                                  history |-> "ok"], now)
           IN /\ Installs(r.eng)
              /\ last' = [op |-> "submit_order", ref |-> ref, result |-> r.result]
        /\ UNCHANGED <<threads, now, strategy_executor>>

\* engine.sync_order_status(order_id)
SyncOrderStatus ==
    \E order_id \in OrderRefs \cup {"unknown"}, venue \in Venues :
        LET r == sync_order_status(EngineNow, order_id, venue)
        IN /\ Installs(r.eng)
           /\ last' = [op |-> "sync_order_status", order_id |-> order_id,
                       venue |-> venue, result |-> r.result, polled |-> r.polled]
           /\ UNCHANGED <<threads, now, strategy_executor>>

\* engine.sync_all_orders()
SyncAllOrders ==
    \E venue \in Venues :
        LET r == sync_all_orders(EngineNow, venue)
        IN /\ Installs(r.eng)
           /\ last' = [op |-> "sync_all_orders", venue |-> venue, result |-> r.result,
                       active |-> ActiveOrders(order_history)]
           /\ UNCHANGED <<threads, now, strategy_executor>>

NextSync == SubmitPlain \/ SyncOrderStatus \/ SyncAllOrders

SpecSync == InitSync /\ [][NextSync]_vars

-----------------------------------------------------------------------------
(* kelly_criterion on its own *)

\* win probabilities: the sixteenths from -1/16 to 15/16, 1, and 9/8
WinProbabilityInputs ==
    { Float(m, 0 - MantissaBits) : m \in (0 - 1)..(Pow2(MantissaBits) - 1) }
    \cup { FOne, Float(9, 0 - 3) }

\* win/loss ratios: m * 2^-e down to 2^-MinExponent, zero, and a negative one
WinLossRatioInputs ==
    { Float(m, 0 - e) : m \in 0..(Pow2(MantissaBits) - 1), e \in 0..MinExponent }
    \cup { Float(0 - 1, 0) }

InitKelly ==
    /\ now = 0
    /\ threads = <<>>
    /\ orders = <<>>
    /\ risk_manager = <<>>
    /\ liquidity_analyzer = <<>>
    /\ large_order_monitor = <<>>
    /\ order_history = <<>>
    /\ gateway = <<>>
    /\ strategy_executor = <<>>
    /\ \E win_probability \in WinProbabilityInputs, win_loss_ratio \in WinLossRatioInputs :
          last = [op |-> "input", win_probability |-> win_probability,
                  win_loss_ratio |-> win_loss_ratio]

\* polymarket_strategy.kelly_criterion(win_probability, win_loss_ratio)
KellyCriterion ==
    /\ last.op = "input"
    /\ last' = [op |-> "kelly_criterion", win_probability |-> last.win_probability,
                win_loss_ratio |-> last.win_loss_ratio,
                k |-> kelly_criterion(last.win_probability, last.win_loss_ratio)]
    /\ UNCHANGED <<threads, now, orders, risk_manager, liquidity_analyzer, large_order_monitor,
                   order_history, gateway, strategy_executor>>

NextKelly == KellyCriterion

SpecKelly == InitKelly /\ [][NextKelly]_vars

-----------------------------------------------------------------------------
(* LargeOrderMonitor.record_orders_batch and its worker pool *)

BatchOrder(i, quantity) ==
    [order_id |-> i, symbol |-> "m1", side |-> "buy", quantity |-> quantity, price |-> <<>>,
     account_id |-> "main_account", gateway_name |-> "polymarket"]

\* the monitor of the batch is built with a short list: max_memory_orders
BatchMemoryOrders == 1

BatchInputs ==
    UNION { { [i \in 1..n |-> BatchOrder(i, q[i])] : q \in [1..n -> {50, 100}] } :
              n \in 0..MaxFutures }

\* lines 148-169: the counters, and one future per order that check_large_order accepts
SubmitFutures(lom, batch) ==
    LET large_orders_to_record == SelectSeq(batch, LAMBDA order : check_large_order(lom, order))
    IN [batch |-> batch,
        results |-> [total |-> Len(batch), large_orders |-> Len(large_orders_to_record),
                     recorded |-> 0, failed |-> 0, errors |-> <<>>],
        futures |-> [i \in 1..Len(large_orders_to_record) |->
                        [order |-> large_orders_to_record[i], pc |-> "pending",
                         filename |-> <<>>, success |-> FALSE]]]

\* a loop over the futures that counts the successes only
Tally_successes_only(results, success) ==
    IF success THEN [results EXCEPT !.recorded = @ + 1] ELSE results

\* lines 173-177: one completed future is counted
Tally(results, success) ==
    IF success THEN [results EXCEPT !.recorded = @ + 1]
    ELSE [results EXCEPT !.failed = @ + 1]

Running(pool) ==
    { i \in DOMAIN pool.futures :
        pool.futures[i].pc \in {"pop", "append", "write", "index_create", "index_append"} }

InitBatch ==
    /\ now = 0
    /\ threads = <<>>
    /\ orders = <<>>
    /\ risk_manager = <<>>
    /\ liquidity_analyzer = <<>>
    /\ \E threshold \in {50, 100}, batch \in BatchInputs :
          /\ large_order_monitor =
                [LargeOrderMonitorNew(threshold) EXCEPT !.max_memory_orders = BatchMemoryOrders]
          /\ last = [op |-> "input", batch |-> batch]
    /\ order_history = <<>>
    /\ gateway = <<>>
    /\ strategy_executor = <<>>

batch_only ==
    UNCHANGED <<now, orders, risk_manager, liquidity_analyzer, order_history, gateway,
                strategy_executor>>

\* record_orders_batch(orders) up to the submission of the futures
RecordOrdersBatch ==
    /\ last.op = "input"
    /\ threads = <<>>
    /\ threads' = SubmitFutures(large_order_monitor, last.batch)
    /\ last' = [op |-> "submit", batch |-> last.batch]
    /\ UNCHANGED large_order_monitor
    /\ batch_only

\* a pool worker takes a future: record_large_order, lines 81-101, up to the
\* test of the list length
WorkerRecord(i) ==
    /\ threads.futures[i].pc = "pending"
    /\ Cardinality(Running(threads)) < max_workers
    /\ LET order == threads.futures[i].order
           lom == large_order_monitor
       IN threads' =
              [threads EXCEPT !.futures[i].pc =
                  IF ~check_large_order(lom, order) THEN "done"
                  ELSE IF Len(lom.large_orders) >= lom.max_memory_orders THEN "pop"
                  ELSE "append"]
    /\ last' = [op |-> "worker", future |-> i]
    /\ UNCHANGED large_order_monitor
    /\ batch_only

\* line 102: the list was full when line 101 looked, its oldest record is
\* removed; pop(0) of a list emptied in between raises IndexError, which lands
\* in the except clause of line 142 and the task returns False
WorkerPop(i) ==
    /\ threads.futures[i].pc = "pop"
    /\ IF large_order_monitor.large_orders = <<>>
       THEN /\ threads' = [threads EXCEPT !.futures[i].pc = "done"]
            /\ UNCHANGED large_order_monitor
       ELSE /\ large_order_monitor' =
                  [large_order_monitor EXCEPT !.large_orders = Tail(@)]
            /\ threads' = [threads EXCEPT !.futures[i].pc = "append"]
    /\ last' = [op |-> "worker", future |-> i]
    /\ batch_only

\* line 103: the record joins the list
WorkerAppend(i) ==
    /\ threads.futures[i].pc = "append"
    /\ LET order == threads.futures[i].order
           order_data == [timestamp |-> now, order_id |-> order.order_id,
                          symbol |-> order.symbol, side |-> order.side,
                          quantity |-> order.quantity, price |-> order.price,
                          account_id |-> order.account_id, gateway_name |-> order.gateway_name]
       IN large_order_monitor' =
              [large_order_monitor EXCEPT !.large_orders = Append(@, order_data)]
    /\ threads' = [threads EXCEPT !.futures[i].pc = "write"]
    /\ last' = [op |-> "worker", future |-> i]
    /\ batch_only

\* lines 106-116: the file is written under a name taken from the clock; a failed write
\* lands in the except clause of line 142 and the task returns False
WorkerWrite(i) ==
    /\ threads.futures[i].pc = "write"
    /\ \E io \in {"ok", "fail"}, ms \in {0, 1} :
          LET order == threads.futures[i].order
              lom == large_order_monitor
              filename == <<now, ms>>
              order_data == [timestamp |-> now, order_id |-> order.order_id,
                             symbol |-> order.symbol, side |-> order.side,
                             quantity |-> order.quantity, price |-> order.price,
                             account_id |-> order.account_id,
                             gateway_name |-> order.gateway_name]
          IN IF io = "fail"
             THEN /\ threads' = [threads EXCEPT !.futures[i].pc = "done"]
                  /\ UNCHANGED large_order_monitor
             ELSE /\ large_order_monitor' =
                        [lom EXCEPT !.files = [f \in DOMAIN lom.files \cup {filename} |->
                                                  IF f = filename THEN order_data
                                                  ELSE lom.files[f]]]
                  /\ threads' =
                        [threads EXCEPT
                            !.futures[i].filename = filename,
                            !.futures[i].success = (order.symbol = None \/ order.symbol = ""),
                            !.futures[i].pc =
                                IF order.symbol = None \/ order.symbol = "" THEN "done"
                                ELSE IF order.symbol \in DOMAIN lom.order_index
                                     THEN "index_append" ELSE "index_create"]
    /\ last' = [op |-> "worker", future |-> i]
    /\ batch_only

\* line 117: the symbol was missing when line 116 looked, its list is created
WorkerIndexCreate(i) ==
    /\ threads.futures[i].pc = "index_create"
    /\ LET lom == large_order_monitor
           symbol == threads.futures[i].order.symbol
       IN large_order_monitor' =
              [lom EXCEPT !.order_index = [s \in DOMAIN lom.order_index \cup {symbol} |->
                                              IF s = symbol THEN <<>> ELSE lom.order_index[s]]]
    /\ threads' = [threads EXCEPT !.futures[i].pc = "index_append"]
    /\ last' = [op |-> "worker", future |-> i]
    /\ batch_only

\* lines 118-140: the file name joins the symbol's list, the task returns True
WorkerIndexAppend(i) ==
    /\ threads.futures[i].pc = "index_append"
    /\ LET symbol == threads.futures[i].order.symbol
       IN large_order_monitor' =
              [large_order_monitor EXCEPT
                  !.order_index[symbol] = Append(@, threads.futures[i].filename)]
    /\ threads' = [threads EXCEPT !.futures[i].pc = "done", !.futures[i].success = TRUE]
    /\ last' = [op |-> "worker", future |-> i]
    /\ batch_only

\* lines 171-180: as_completed hands over a finished future and it is counted
Collect(i) ==
    /\ threads.futures[i].pc = "done"
    /\ threads' = [threads EXCEPT !.futures[i].pc = "collected",
                                  !.results = Tally(@, threads.futures[i].success)]
    /\ last' = [op |-> "collect", future |-> i]
    /\ UNCHANGED large_order_monitor
    /\ batch_only

\* line 186: every future is counted and the call returns
ReturnBatch ==
    /\ threads # <<>>
    /\ \A i \in DOMAIN threads.futures : threads.futures[i].pc = "collected"
    /\ last' = [op |-> "record_orders_batch", batch |-> threads.batch,
                results |-> threads.results, futures |-> threads.futures]
    /\ threads' = <<>>
    /\ UNCHANGED large_order_monitor
    /\ batch_only

Worker ==
    /\ threads # <<>>
    /\ \E i \in DOMAIN threads.futures :
          \/ WorkerRecord(i)
          \/ WorkerPop(i)
          \/ WorkerAppend(i)
          \/ WorkerWrite(i)
          \/ WorkerIndexCreate(i)
          \/ WorkerIndexAppend(i)
          \/ Collect(i)

NextBatch == RecordOrdersBatch \/ Worker \/ ReturnBatch

SpecBatch == InitBatch /\ [][NextBatch]_vars

-----------------------------------------------------------------------------
(* One calendar day of the engine, called from a single thread *)

\* orders whose notionals reach the daily limit in two trades, and an invalid one
DayOrderInputs(ref) ==
    { MarketOrder(ref, InstPoly, "buy", 100), MarketOrder(ref, InstPoly, "buy", 150),
      MarketOrder(ref, InstPoly, "sell", 150), [BaseOrder(ref) EXCEPT !.quantity = 0] }

\* the venue adapter returns an id or raises; the liquidity sample and the history entry
\* are stored, or fail inside add_historical_data and _record_order_history
DayEnvs ==
    { [send |-> "raise", io |-> "ok", ms |-> 0, sample |-> "ok", history |-> "ok"] }
    \cup [send : {"ok"}, io : {"ok"}, ms : {0}, sample : {"ok", "fail"},
          history : {"ok", "fail"}]

InitDay ==
    /\ now = 0
    /\ threads = <<>>
    /\ orders \in [OrderRefs -> UNION {DayOrderInputs(r) : r \in OrderRefs}]
    /\ \A r \in OrderRefs : orders[r] \in DayOrderInputs(r)
    /\ risk_manager = RiskManagerInit(0)
    /\ liquidity_analyzer = LiquidityAnalyzerInit
    /\ large_order_monitor = LargeOrderMonitorInit
    /\ order_history = <<>>
    /\ gateway = GatewayInit
    /\ strategy_executor = <<>>
    /\ last = Idle

\* engine.submit_order(order)
SubmitOrderDay ==
    \E ref \in OrderRefs, env \in DayEnvs :
        /\ SendCalls(gateway) < MaxDaySends
        /\ LET r == submit_order(EngineNow, ref, NoProbabilities, env, now)
           IN /\ Installs(r.eng)
              /\ last' = [op |-> "submit_order", ref |-> ref, env |-> env,
                          raised |-> r.raised, result |-> r.result]
        /\ UNCHANGED <<threads, now, strategy_executor>>

\* engine.submit_orders_batch(orders)
SubmitOrdersBatchDay ==
    \E n \in 1..MaxBatch :
        \E entries \in [1..n -> [ref : OrderRefs, market_probabilities : {NoProbabilities}]],
           envs \in [1..n -> DayEnvs] :
            /\ SendCalls(gateway) + n <= MaxDaySends
            /\ LET r == submit_orders_batch(EngineNow, entries, envs, now)
               IN /\ Installs(r.eng)
                  /\ last' = [op |-> "submit_orders_batch", entries |-> entries,
                              envs |-> envs, raised |-> r.raised, result |-> r.result]
            /\ UNCHANGED <<threads, now, strategy_executor>>

NextDay == SubmitOrderDay \/ SubmitOrdersBatchDay

SpecDay == InitDay /\ [][NextDay]_vars

-----------------------------------------------------------------------------
(* submit_order called from two threads: the strategy loop and an event caller *)

ThreadNames == {"loop", "event"}

ThreadIdle == [pc |-> "idle", ref |-> None, steps |-> <<>>, loaded |-> 0]

InitThreads ==
    /\ now = 0
    /\ threads = [th \in ThreadNames |-> ThreadIdle]
    /\ orders \in [OrderRefs -> UNION {DayOrderInputs(r) : r \in OrderRefs}]
    /\ \A r \in OrderRefs : orders[r] \in DayOrderInputs(r)
    /\ risk_manager = RiskManagerInit(0)
    /\ liquidity_analyzer = LiquidityAnalyzerInit
    /\ large_order_monitor = LargeOrderMonitorInit
    /\ order_history = <<>>
    /\ gateway = GatewayInit
    /\ strategy_executor = <<>>
    /\ last = Idle

Returns(th, r) ==
    /\ Installs(r.eng)
    /\ threads' = [threads EXCEPT ![th] = ThreadIdle]
    /\ last' = [op |-> "submit_order", thread |-> th, ref |-> threads[th].ref,
                result |-> r.result]

\* submit_order up to the verdict of check_order (lines 30-76)
ThreadCheck(th) ==
    /\ threads[th].pc = "idle"
    /\ SendCalls(gateway) < MaxSends
    /\ \E ref \in OrderRefs :
          LET order == orders[ref]
              validation_result == _validate_order(order)
              c == check_order(risk_manager, Accounts[order.account_id], order, now)
              checked == [EngineNow EXCEPT !.risk_manager = c.rm]
              steps == <<Step("validation", "success", None)>>
          IN IF ~validation_result.valid
             THEN /\ Installs(Rejected(EngineNow, ref, validation_result.message, <<>>).eng)
                  /\ threads' = threads
                  /\ last' = [op |-> "submit_order", thread |-> th, ref |-> ref,
                              result |-> Rejected(EngineNow, ref, validation_result.message,
                                                  <<>>).result]
             ELSE IF ~c.verdict
             THEN /\ Installs(Rejected(checked, ref, "risk check failed", steps).eng)
                  /\ threads' = threads
                  /\ last' = [op |-> "submit_order", thread |-> th, ref |-> ref,
                              result |-> Rejected(checked, ref, "risk check failed",
                                                  steps).result]
             ELSE /\ Installs(checked)
                  /\ threads' = [threads EXCEPT
                                    ![th] = [pc |-> "dispatch", ref |-> ref,
                                             steps |-> Append(steps, Step("risk_check",
                                                                          "success", None)),
                                             loaded |-> 0]]
                  /\ last' = [op |-> "step", thread |-> th]
    /\ UNCHANGED <<now, strategy_executor>>

\* steps 4 to 7 (lines 78-133): liquidity analysis, large-order record, send_order, which
\* waits for the venue, and the liquidity sample
ThreadDispatch(th) ==
    /\ threads[th].pc = "dispatch"
    /\ \E send \in {"ok", "raise"} :
          LET ref == threads[th].ref
              order == orders[ref]
              a == analyze_liquidity(liquidity_analyzer, order.instrument.symbol,
                                     order.quantity, now)
              large_order_info ==
                  [order_id |-> order.order_id, symbol |-> order.instrument.symbol,
                   side |-> order.side, quantity |-> order.quantity, price |-> order.price,
                   account_id |-> order.account_id,
                   gateway_name |-> order.instrument.gateway_name]
              lo == record_large_order(large_order_monitor, large_order_info, now, "ok", 0)
              gateway_name == order.instrument.gateway_name
              called == [EngineNow EXCEPT !.liquidity_analyzer = a.la,
                                          !.large_order_monitor = lo.lom,
                                          !.gateway[gateway_name].calls = @ + 1]
              gw_order_id == SendCalls(called.gateway)
              executed_price == PriceOr1(order.price)
              submitted == [order EXCEPT !.gateway_order_id = <<gw_order_id>>,
                                         !.status = "submitted"]
          IN IF send = "raise"
             THEN Returns(th, Failed(called, ref, "venue error", threads[th].steps))
             ELSE /\ Installs([called EXCEPT
                                  !.gateway[gateway_name].sent = Append(@, order.order_id),
                                  !.orders[ref] = submitted,
                                  !.liquidity_analyzer =
                                      add_historical_data(a.la, order.instrument.symbol, now,
                                                          executed_price, executed_price,
                                                          order.quantity)])
                  /\ threads' = [threads EXCEPT ![th].pc = "record_load"]
                  /\ last' = [op |-> "step", thread |-> th]
    /\ UNCHANGED <<now, strategy_executor>>

\* record_trade, line 171: self.daily_trade_amount is read
ThreadRecordLoad(th) ==
    /\ threads[th].pc = "record_load"
    /\ threads' = [threads EXCEPT ![th].pc = "record_store",
                                  ![th].loaded = risk_manager.daily_trade_amount]
    /\ last' = [op |-> "step", thread |-> th]
    /\ UNCHANGED <<now, orders, risk_manager, liquidity_analyzer, large_order_monitor,
                   order_history, gateway, strategy_executor>>

\* record_trade, line 171: the sum is stored
ThreadRecordStore(th) ==
    /\ threads[th].pc = "record_store"
    /\ risk_manager' =
          [risk_manager EXCEPT !.daily_trade_amount =
              threads[th].loaded + orders[threads[th].ref].quantity
                                       * PriceOr1(orders[threads[th].ref].price)]
    /\ threads' = [threads EXCEPT ![th].pc = "record_rest"]
    /\ last' = [op |-> "step", thread |-> th]
    /\ UNCHANGED <<now, orders, liquidity_analyzer, large_order_monitor, order_history,
                   gateway, strategy_executor>>

\* the rest of record_trade (lines 173-197), the history entry and the return
ThreadReturn(th) ==
    /\ threads[th].pc = "record_rest"
    /\ LET ref == threads[th].ref
           order == orders[ref]
           result == Result(order, "submitted", "order submitted",
                            Append(threads[th].steps, Step("execution", "success", None)))
           rm == [record_trade(risk_manager, order, PriceOr1(order.price), now)
                     EXCEPT !.daily_trade_amount = risk_manager.daily_trade_amount]
       IN Returns(th, [eng |-> [EngineNow EXCEPT
                                   !.risk_manager = rm,
                                   !.order_history =
                                       _record_order_history(order_history, order, result,
                                                             now)],
                       result |-> result])
    /\ UNCHANGED <<now, strategy_executor>>

ThreadStep ==
    \E th \in ThreadNames :
        \/ ThreadCheck(th)
        \/ ThreadDispatch(th)
        \/ ThreadRecordLoad(th)
        \/ ThreadRecordStore(th)
        \/ ThreadReturn(th)

NextThreads == ThreadStep

SpecThreads == InitThreads /\ [][NextThreads]_vars

-----------------------------------------------------------------------------
(* handle_event called from two threads *)

InitEvents ==
    /\ now = 0
    /\ threads = [th \in ThreadNames |-> [pc |-> "idle", event_name |-> None]]
    /\ orders = <<>>
    /\ risk_manager = <<>>
    /\ liquidity_analyzer = <<>>
    /\ large_order_monitor = <<>>
    /\ order_history = <<>>
    /\ gateway = <<>>
    /\ strategy_executor = StrategyExecutorInit(TRUE, <<>>)
    /\ last = Idle

events_only ==
    UNCHANGED <<now, orders, risk_manager, liquidity_analyzer, large_order_monitor,
                order_history, gateway>>

\* handle_event up to the cooldown check (lines 538-566)
EventCheck(th) ==
    /\ threads[th].pc = "idle"
    /\ \E event_name \in EventNames :
          IF ~strategy_executor.event_subscription_enabled
          THEN /\ last' = [op |-> "handle_event", thread |-> th,
                           result |-> EventReply(event_name, "disabled", None, 0)]
               /\ threads' = threads
          ELSE IF event_name \notin subscribed_events
          THEN /\ last' = [op |-> "handle_event", thread |-> th,
                           result |-> EventReply(event_name, "not_subscribed", None, 0)]
               /\ threads' = threads
          ELSE IF _is_in_cooldown(strategy_executor, event_name, now)
          THEN /\ last' = [op |-> "handle_event", thread |-> th,
                           result |-> EventReply(event_name, "cooldown", None, 0)]
               /\ threads' = threads
          ELSE /\ last' = [op |-> "cooldown_check", thread |-> th]
               /\ threads' = [threads EXCEPT ![th] = [pc |-> "handling",
                                                      event_name |-> event_name]]
    /\ UNCHANGED strategy_executor
    /\ events_only

\* handle_event from the call of the strategy to the return (lines 569-640); the check
\* of the cooldown was made by EventCheck, so the rest of handle_event is what runs here
EventHandle(th) ==
    /\ threads[th].pc = "handling"
    /\ \E event_result \in EventResultInputs, market_info \in {"ok", "none"} :
          LET event_name == threads[th].event_name
              event_orders == EventOrders(event_result.results, <<>>, market_info)
          IN /\ strategy_executor' =
                    IF event_result.status = "processed" /\ event_orders # <<>>
                    THEN _set_cooldown(strategy_executor, event_name, now)
                    ELSE strategy_executor
             /\ last' = [op |-> "handle_event", thread |-> th,
                         event_result |-> event_result,
                         result |-> IF event_result.status # "processed"
                                    THEN EventReply(event_name, event_result.status, None, 0)
                                    ELSE IF event_orders # <<>>
                                    THEN EventReply(event_name, "processed", "submitted",
                                                    Len(event_orders))
                                    ELSE EventReply(event_name, "processed", "no_orders", 0)]
    /\ threads' = [threads EXCEPT ![th] = [pc |-> "idle", event_name |-> None]]
    /\ events_only

EventStep == \E th \in ThreadNames : EventCheck(th) \/ EventHandle(th)

NextEvents == Tick \/ EventStep

SpecEvents == InitEvents /\ [][NextEvents]_vars

-----------------------------------------------------------------------------
(* Properties of submit_order and submit_orders_batch, checked under Spec *)

Last(s) == s[Len(s)]

IsSubmit(l) == l.op = "submit_order" /\ l.ref # None

\* this step called send_order of adapter g once and no other adapter
CallsOnly(g) ==
    /\ gateway'[g].calls = gateway[g].calls + 1
    /\ \A h \in Gateways \ {g} : gateway'[h] = gateway[h]

\* this step called send_order and the adapter raised
AdapterRaised ==
    \E g \in Gateways : CallsOnly(g) /\ gateway'[g].sent = gateway[g].sent

GatePasses(market_probabilities) ==
    market_probabilities.kind # "dict"
        \/ analyze_market_probabilities(market_probabilities).can_trade

RiskPasses(order) ==
    /\ order.account_id \in DOMAIN Accounts
    /\ check_order(risk_manager, Accounts[order.account_id], order, now).verdict

RiskRejects(order) ==
    /\ order.account_id \in DOMAIN Accounts
    /\ ~check_order(risk_manager, Accounts[order.account_id], order, now).verdict

\* the order of this call is rejected by validation, by the gate or by the risk check
RejectCase(ref, market_probabilities) ==
    \/ ~_validate_order(orders[ref]).valid
    \/ ~GatePasses(market_probabilities)
    \/ RiskRejects(orders[ref])

PassCase(ref, market_probabilities) ==
    /\ _validate_order(orders[ref]).valid
    /\ GatePasses(market_probabilities)
    /\ RiskPasses(orders[ref])

HasStep(steps, step, status) ==
    \E i \in 1..Len(steps) : steps[i].step = step /\ steps[i].status = status

\* C1: an order that fails validation, that the probability gate finds ineligible
\* or that check_order refuses comes back 'rejected', and the call makes no
\* send_order call, no record_trade call, adds no liquidity sample and appends no
\* order-history entry.
C1_RejectedOrderHasNoEffect ==
    [][ (IsSubmit(last') /\ RejectCase(last'.ref, last'.market_probabilities))
            => /\ ~last'.raised
               /\ last'.result.status = "rejected"
               /\ orders'[last'.ref].status = "rejected"
               /\ gateway' = gateway
               /\ risk_manager'.trade_history = risk_manager.trade_history
               /\ risk_manager'.market_exposure = risk_manager.market_exposure
               /\ liquidity_analyzer'.historical_data = liquidity_analyzer.historical_data
               /\ order_history' = order_history ]_vars

\* a rejection by the risk check, after an earlier order went through
C1_Witness ==
    /\ IsSubmit(last)
    /\ last.result.status = "rejected"
    /\ HasStep(last.result.steps, "risk_check", "failed")
    /\ Len(order_history) > 0

\* C2: when send_order raises, submit_order does not raise, the order's status
\* and the result's status are both error, and the last step carries the
\* exception message.
C2_AdapterErrorMarksOrderError ==
    [][ (IsSubmit(last') /\ AdapterRaised)
            => /\ ~last'.raised
               /\ last'.result.status = "error"
               /\ orders'[last'.ref].status = "error"
               /\ Last(last'.result.steps).message = "venue error" ]_vars

\* C3: an order that passes validation, the gate and the risk check is handed to
\* send_order of the adapter its instrument names, whatever the liquidity rating
\* and whatever record_large_order returned; the result is never a rejection.
C3_PassingOrderIsDispatched ==
    [][ (IsSubmit(last') /\ PassCase(last'.ref, last'.market_probabilities))
            => /\ ~last'.raised
               /\ CallsOnly(orders[last'.ref].instrument.gateway_name)
               /\ last'.result.status \in {"submitted", "error"}
               /\ Last(last'.result.steps).step = "execution"
               /\ \E i \in 1..Len(last'.result.steps) :
                     last'.result.steps[i].step = "liquidity_analysis"
               /\ \E i \in 1..Len(last'.result.steps) :
                     last'.result.steps[i].step = "large_order_check" ]_vars

\* a large order submitted although its liquidity is LOW and its large-order
\* record could not be written
C3_Witness ==
    /\ IsSubmit(last)
    /\ last.result.status = "submitted"
    /\ orders[last.ref].quantity >= large_order_monitor.threshold
    /\ HasStep(last.result.steps, "liquidity_analysis", "warning")
    /\ \E i \in 1..Len(last.result.steps) :
          /\ last.result.steps[i].step = "large_order_check"
          /\ ~last.result.steps[i].recorded

\* entries 1..n of a sequence without entry k
Without(s, k) == [i \in 1..(Len(s) - 1) |-> IF i < k THEN s[i] ELSE s[i + 1]]

Malformed(entry) == entry.ref = None \/ ~_validate_order(orders[entry.ref]).valid

\* C4: submit_orders_batch never raises, returns total = N with N details and
\* submitted + rejected + errors = N; with exactly one malformed entry k, the
\* other entries get the results they get in the batch without entry k.
C4_BatchAttemptsEveryEntry ==
    [][ last'.op = "submit_orders_batch"
            => LET entries == last'.entries
                   n == Len(entries)
                   res == last'.result
               IN /\ ~last'.raised
                  /\ res.total = n
                  /\ Len(res.details) = n
                  /\ res.submitted + res.rejected + res.errors = n
                  /\ \A k \in 1..n :
                        (Malformed(entries[k])
                            /\ \A j \in 1..n : j # k => ~Malformed(entries[j]))
                        => \E envs \in [1..(n - 1) -> Envs] :
                              submit_orders_batch(EngineNow, Without(entries, k), envs,
                                                  now).result.details
                                  = Without(res.details, k) ]_vars

\* the order ids of the results that are 'submitted', in order
RECURSIVE SubmittedIds(_)
SubmittedIds(details) ==
    IF details = <<>> THEN <<>>
    ELSE (IF Head(details).status = "submitted" THEN <<Head(details).order_id>> ELSE <<>>)
            \o SubmittedIds(Tail(details))

\* the order ids of the ledger entries record_trade added in this step
NewTrades ==
    [i \in 1..(Len(risk_manager'.trade_history) - Len(risk_manager.trade_history)) |->
        risk_manager'.trade_history[Len(risk_manager.trade_history) + i].order_id]

\* C5: the ledger entries a call adds are exactly one per result 'submitted', for
\* that order, in order; a call with any other result adds none.
C5_RecordTradeOncePerSubmitted ==
    [][ /\ (IsSubmit(last') /\ ~last'.raised)
            => NewTrades = SubmittedIds(<<last'.result>>)
        /\ (last'.op = "submit_orders_batch" /\ ~last'.raised)
            => NewTrades = SubmittedIds(last'.result.details) ]_vars

\* a batch with one order submitted and one in error
C5_Witness ==
    /\ last.op = "submit_orders_batch"
    /\ ~last.raised
    /\ last.result.submitted = 1
    /\ last.result.errors = 1
    /\ Len(risk_manager.trade_history) = 1

\* C6: an Order left rejected or error keeps that status in every later step.
C6_RejectedAndErrorAreTerminal ==
    [][ \A r \in OrderRefs :
            orders[r].status \in {"rejected", "error"} => orders'[r].status = orders[r].status
      ]_vars

StageRank(step) ==
    CASE step = "validation" -> 1
      [] step = "probability_check" -> 2
      [] step = "risk_check" -> 3
      [] step = "liquidity_analysis" -> 4
      [] step = "large_order_check" -> 5
      [] step = "execution" -> 6

\* C7: the steps of a result are in pipeline order, one per stage, and a result
\* that is not 'submitted' ends with the stage that refused or failed: with an
\* unknown account id, the risk stage.
C7_TrailNamesFailingStage ==
    (IsSubmit(last) /\ ~last.raised)
        => LET steps == last.result.steps
               order == orders[last.ref]
           IN /\ \A i \in 1..(Len(steps) - 1) :
                    StageRank(steps[i].step) < StageRank(steps[i + 1].step)
              /\ (/\ _validate_order(order).valid
                  /\ GatePasses(last.market_probabilities)
                  /\ order.account_id \notin DOMAIN Accounts)
                 => Last(steps).step = "risk_check"

\* C8: when send_order raises, the order is marked error, the result carries the
\* message, and the order history gains an entry for the order.
C8_AdapterErrorIsRecorded ==
    [][ (IsSubmit(last') /\ AdapterRaised)
            => /\ orders'[last'.ref].status = "error"
               /\ last'.result.message = <<"unexpected error: ", "venue error">>
               /\ Len(order_history') = Len(order_history) + 1
               /\ Last(order_history').order_id = orders[last'.ref].order_id ]_vars

-----------------------------------------------------------------------------
(* Properties of RiskManager.check_order, checked under SpecRisk *)

IsCheck == last.op = "check_order"

\* C9: check_order is true exactly when the quote-asset balance covers the
\* notional and the five limits hold.
C9_CheckOrderVerdict ==
    IsCheck
        => LET order == last.order
               account == last.account
               notional == order.quantity * PriceOr1(order.price)
               recent == {i \in 1..Len(risk_manager.trade_history) :
                            risk_manager.trade_history[i].timestamp >= now - MinuteTicks}
           IN last.verdict <=>
                /\ Get(account.balances, order.instrument.quote_asset) >= notional
                /\ notional <= RiskConfig.max_order_size
                /\ risk_manager.daily_trade_amount + notional <= RiskConfig.daily_trade_limit
                /\ Get(risk_manager.market_exposure, order.instrument.symbol) + notional
                       <= RiskConfig.max_market_exposure
                /\ Cardinality(recent) < RiskConfig.max_trades_per_minute
                /\ TotalPosition(account.positions) <= RiskConfig.max_position_size

\* C10 as stated: check_order leaves the whole RiskManager as it was.
C10_CheckOrderReadOnly == IsCheck => risk_manager = last.before

\* C10 amended: check_order leaves the exposure map and the ledger as they were;
\* the accumulator and the reset date too on the day of the last reset, and on
\* the first call after a day boundary they become zero and today.
C10_CheckOrderFrame ==
    IsCheck
        => /\ risk_manager.market_exposure = last.before.market_exposure
           /\ risk_manager.trade_history = last.before.trade_history
           /\ IF Today(now) = last.before.last_reset_date
              THEN /\ risk_manager.daily_trade_amount = last.before.daily_trade_amount
                   /\ risk_manager.last_reset_date = last.before.last_reset_date
              ELSE /\ risk_manager.daily_trade_amount = 0
                   /\ risk_manager.last_reset_date = Today(now)

\* a check on the day after trades were recorded
C10_Witness ==
    /\ IsCheck
    /\ last.before.daily_trade_amount > 0
    /\ last.before.last_reset_date # Today(now)
    /\ risk_manager.daily_trade_amount = 0

\* the amounts of the ledger entries recorded on the given day
RECURSIVE DayAmount(_, _)
DayAmount(hist, day) ==
    IF hist = <<>> THEN 0
    ELSE (IF Today(Head(hist).timestamp) = day THEN Head(hist).amount ELSE 0)
            + DayAmount(Tail(hist), day)

\* C11: after any use of the RiskManager (check_order or record_trade) the
\* accumulator is the sum of the trades recorded on the current day: it was reset
\* on the first use after the day boundary, and no trade of today was added to
\* the total of an earlier day or discarded by a later reset.
C11_DailyResetOnFirstUse ==
    last.op \in {"check_order", "record_trade"}
        => risk_manager.daily_trade_amount
               = DayAmount(risk_manager.trade_history, Today(now))

-----------------------------------------------------------------------------
(* Properties of the StrategyExecutor, checked under SpecExecutor *)

\* some result of the event carries a valid signal for a known market
HasValidSignal(event_result, market_info) ==
    /\ event_result.status = "processed"
    /\ market_info = "ok"
    /\ \E i \in 1..Len(event_result.results) :
          /\ ~event_result.results[i].error
          /\ _is_valid_event_signal(event_result.results[i].signal,
                                    event_result.results[i].order_size)

\* C12: right after handle_event processed a subscribed event that carried a
\* valid signal, a second handle_event for the same event name (well within
\* cooldown_period) is skipped with status 'cooldown' and prepares no order.
C12_SecondEventInCooldown ==
    (/\ last.op = "handle_event"
     /\ last.event_name \in subscribed_events
     /\ HasValidSignal(last.event_result, last.market_info))
        => \A event_result \in EventResultInputs, market_info \in {"ok", "none"} :
              LET second == handle_event(strategy_executor, last.event_name,
                                         event_result, market_info, now)
              IN /\ second.result.status = "cooldown"
                 /\ second.result.order_count = 0

\* C13: at most one scheduler loop thread is alive at any time.
C13_AtMostOneLoopThread == Cardinality(Alive(strategy_executor)) <= 1

-----------------------------------------------------------------------------
(* Properties of the LiquidityAnalyzer, checked under SpecLiquidity *)

\* C14: an analysis returns what the previous analysis of the same symbol and
\* size returned, when no sample was added for that symbol in between.
C14_AnalysisIdempotent ==
    (last.op = "analyze_liquidity" /\ last.previous # <<>>)
        => last.result = last.previous[1]

\* the analysis of the history as it stands at time t, nothing memoized
Recomputed(la, symbol, target_size, t) ==
    analyze_liquidity([la EXCEPT !.cache = <<>>], symbol, target_size, t).result

\* C15: the result analyze_liquidity returns at time t is the analysis of the
\* samples inside the recency window at t; a memoized result computed from
\* samples that have left the window is not returned.
C15_RatingFromRecentSamples ==
    last.op = "analyze_liquidity"
        => last.result = Recomputed(liquidity_analyzer, last.symbol, last.target_size, now)

-----------------------------------------------------------------------------
(* Properties of the LargeOrderMonitor, checked under SpecMonitor *)

\* C16: the threshold of a constructed monitor is strictly positive; the
\* constructor fails for a non-positive threshold; set_threshold with zero or a
\* negative value returns false and leaves the threshold as it was.
C16_ThresholdPositive ==
    /\ Constructed(large_order_monitor) => large_order_monitor.threshold > 0
    /\ (last.op = "__init__" /\ last.threshold <= 0) => ~Constructed(large_order_monitor)
    /\ (last.op = "set_threshold" /\ last.threshold <= 0)
          => /\ ~last.result
             /\ large_order_monitor.threshold = last.before.threshold
    /\ (last.op = "set_threshold" /\ last.threshold > 0)
          => /\ last.result
             /\ large_order_monitor.threshold = last.threshold

\* a non-positive threshold refused after the threshold had been changed
C16_Witness ==
    /\ last.op = "set_threshold"
    /\ last.threshold <= 0
    /\ ~last.result
    /\ large_order_monitor.threshold # DefaultThreshold

-----------------------------------------------------------------------------
(* Properties of the ProbabilityStrategy, checked under SpecProbability *)

\* C17: with both probabilities in [0,100] and total = p1 + p2: total >= 97 is
\* eligible without message, 90 <= total < 97 eligible with a caution message,
\* total < 90 ineligible; a negative or greater-than-100 input is ineligible
\* whatever the total.  get_trade_recommendation grades the same three cases.
C17_ProbabilityThresholds ==
    LET total == last.p1 + last.p2
        valid == last.p1 >= 0 /\ last.p2 >= 0 /\ last.p1 <= 100 /\ last.p2 <= 100
    IN /\ last.op = "check_probability"
          => /\ ~valid => ~last.result.can_trade
             /\ (valid /\ total >= 97)
                   => (last.result.can_trade /\ last.result.message = None)
             /\ (valid /\ total >= 90 /\ total < 97)
                   => (last.result.can_trade /\ last.result.message # None)
             /\ (valid /\ total < 90) => ~last.result.can_trade
       /\ last.op = "get_trade_recommendation"
          => last.result.recommendation =
                IF ~valid \/ total < 90 THEN "HOLD"
                ELSE IF total >= 97 THEN "STRONG_BUY" ELSE "CAUTIOUS_BUY"

\* a total of exactly 97 accepted without message
C17_Witness ==
    /\ last.op = "check_probability"
    /\ last.p1 + last.p2 = 97
    /\ last.result.can_trade
    /\ last.result.message = None

-----------------------------------------------------------------------------
(* Properties of M-choose-N, checked under SpecMChooseN *)

IsExecute == last.op = "execute_m_choose_n_strategy" /\ last.market = Market(last.m)

IsHelper == last.op = "get_m_choose_n_trade_recommendations" /\ last.market = Market(last.m)

\* a recommendation that is not HOLD and has a positive size
Tradable(rec) == rec.signal # "HOLD" /\ OrderSizeOf(rec) > 0

Elements(seq) == { seq[i] : i \in 1..Len(seq) }

\* C18: with 0 < N <= M execute_m_choose_n_strategy selects at most N
\* recommendations, each of them non-HOLD with a positive size, and no non-HOLD
\* positively sized recommendation that was left out has a strictly higher
\* confidence level than a selected one.
C18_SelectsBestN ==
    (IsExecute /\ 0 < last.n /\ last.n <= last.m)
        => /\ last.out.result.status = "success"
           /\ Len(last.out.selected) <= last.n
           /\ last.out.result.selected_count = Len(last.out.selected)
           /\ Elements(last.out.selected) \subseteq Elements(last.recommendations)
           /\ \A s \in Elements(last.out.selected) : Tradable(s)
           /\ \A s \in Elements(last.out.selected),
                 r \in Elements(last.recommendations) \ Elements(last.out.selected) :
                   Tradable(r)
                       => confidence_levels(r.confidence) <= confidence_levels(s.confidence)

\* a MEDIUM recommendation listed before a HIGH one, N = 1, the HIGH one selected
C18_Witness ==
    /\ IsExecute /\ last.n = 1 /\ last.m >= 2
    /\ Tradable(last.recommendations[1]) /\ last.recommendations[1].confidence = "MEDIUM"
    /\ Tradable(last.recommendations[2]) /\ last.recommendations[2].confidence = "HIGH"
    /\ last.out.selected = <<last.recommendations[2]>>

\* C19 as stated: execute_m_choose_n_strategy with N greater than the number M
\* of outcomes returns without error, with at most M selections.
C19_CappedAtMWithoutError ==
    (IsExecute /\ last.n > last.m)
        => /\ last.out.result.status # "error"
           /\ Len(last.out.selected) <= last.m

\* C19 (amended): execute_m_choose_n_strategy with N greater than the number M
\* of outcomes does not raise and selects nothing: it returns an error result,
\* it does not cap N at M.
C19_NGreaterThanMSelectsNothing ==
    (IsExecute /\ last.n > last.m)
        => /\ ~last.out.raised
           /\ last.out.result.status = "error"
           /\ last.out.selected = <<>>

\* N above M on a market whose recommendations are all tradable
C19_Witness ==
    /\ IsExecute /\ last.n > last.m /\ last.m = MaxOutcomes
    /\ \A r \in Elements(last.recommendations) : Tradable(r)
    /\ last.out.result.status = "error"

\* C20: with N > M or N <= 0 neither call raises; execute_m_choose_n_strategy
\* returns an error result, get_m_choose_n_trade_recommendations an empty
\* list, and no order is built or submitted.
C20_BadNIsInputError ==
    /\ (IsExecute /\ (last.n > last.m \/ last.n <= 0))
          => /\ ~last.out.raised
             /\ last.out.result.status = "error"
             /\ last.out.orders = <<>>
             /\ ~last.out.submitted
    /\ (IsHelper /\ (last.n > last.m \/ last.n <= 0)) => last.out = <<>>

\* N = 0 on a market whose recommendations are all tradable
C20_Witness ==
    /\ IsExecute /\ last.n = 0 /\ last.m > 0
    /\ \A r \in Elements(last.recommendations) : Tradable(r)
    /\ last.out.result.status = "error"
    /\ last.out.orders = <<>>

-----------------------------------------------------------------------------
(* Properties of the order-status sync, checked under SpecSync *)

\* the entries _order_history holds for an order id
EntriesOf(order_id) ==
    { i \in 1..Len(order_history) : order_history[i].order_id = order_id }

C25_SyncUpdatesLocalRecord ==
    /\ (last.op = "sync_order_status" /\ last.result # <<>>)
          => /\ \A i \in EntriesOf(last.order_id) :
                    order_history[i].status = last.result[1].status
             /\ \A k \in 1..Len(last.polled) :
                    last.polled[k] = orders[last.order_id].instrument.gateway_name
    /\ (last.op = "sync_order_status" /\ EntriesOf(last.order_id) = {})
          => last.result = <<>>
    /\ last.op = "sync_all_orders"
          => \A k \in 1..Len(last.result.details) :
                last.result.details[k].status \in {"filled", "cancelled"}
                    => \A i \in EntriesOf(last.result.details[k].order_id) :
                          order_history[i].status \notin {"submitted", "partially_filled"}

-----------------------------------------------------------------------------
(* Properties of kelly_criterion, checked under SpecKelly *)

\* the float x as a whole number of units of 2^-s, rounded down (x >= 0)
Units(x, s) ==
    IF x.e + s >= 0 THEN x.m * Pow2(x.e + s) ELSE x.m \div Pow2(0 - (x.e + s))

\* (p*b - (1 - p)) / b as the fraction num / den, in exact arithmetic
ExactKelly(p, b) ==
    LET pu == Units(p, MantissaBits)
        bu == Units(b, MinExponent)
    IN [num |-> pu * bu - (Pow2(MantissaBits) - pu) * Pow2(MinExponent),
        den |-> Pow2(MantissaBits) * bu]

\* C22: kelly_criterion(p, b) lies in [0,1]; for p in [0,1] and b > 0 it is
\* clamp((p*b - (1-p))/b, 0, 1), here to within one half, the result taken in
\* eighths; it is 0 when b is 0.
C22_KellyFraction ==
    last.op = "kelly_criterion"
        => LET p == last.win_probability
               b == last.win_loss_ratio
               x == ExactKelly(p, b)
               clamped == IF x.num <= 0 THEN 0 ELSE IF x.num >= x.den THEN x.den ELSE x.num
           IN /\ FLe(FZero, last.k) /\ FLe(last.k, FOne)
              /\ b.m = 0 => last.k.m = 0
              /\ (FLe(FZero, p) /\ FLe(p, FOne) /\ b.m > 0)
                    => Magnitude(Units(last.k, 3) * x.den - 8 * clamped) <= 5 * x.den

-----------------------------------------------------------------------------
(* C23 *)

LargeInputs(batch, threshold) == { i \in DOMAIN batch : batch[i].quantity >= threshold }

\* C23: when record_orders_batch returns, whatever the interleaving of its pool tasks,
\* every input order with quantity >= threshold was handed to record_large_order and its
\* future counted, every task whose own write succeeded is counted as recorded whatever
\* happened to the others, large_orders is the number of inputs with quantity >= threshold,
\* and recorded + failed = large_orders.
C23_BatchCounts ==
    last.op = "record_orders_batch" =>
        LET large == LargeInputs(last.batch, large_order_monitor.threshold)
            results == last.results
        IN /\ \A i \in large :
                 \E j \in DOMAIN last.futures : /\ last.futures[j].order = last.batch[i]
                                                /\ last.futures[j].pc = "collected"
           /\ results.recorded =
                 Cardinality({ j \in DOMAIN last.futures : last.futures[j].filename # <<>> })
           /\ results.large_orders = Cardinality(large)
           /\ results.recorded + results.failed = results.large_orders

\* one task of a batch of two failed while the other was recorded
C23_Witness ==
    /\ last.op = "record_orders_batch"
    /\ last.results.large_orders = 2
    /\ last.results.recorded = 1
    /\ last.results.failed = 1
    /\ Len(large_order_monitor.large_orders) = 2

-----------------------------------------------------------------------------
(* C24 *)

\* the verdict check_order gives at clock reading t on the RiskManager, account and order
\* of the call recorded in last
VerdictAt(t) == check_order(last.before, last.account, last.order, t).verdict

-----------------------------------------------------------------------------
(* C28, C29 *)

\* the number of orders the venue adapters hold
Sent(gw) == Len(gw["polymarket"].sent) + Len(gw["binance"].sent)

\* the results of a call that report a submission under a venue order id
SubmittedWithId(details) ==
    { i \in 1..Len(details) :
        details[i].status = "submitted" /\ details[i].gateway_order_id # <<>> }

\* C28: a submit_order call in which send_order returned a venue order id leaves the
\* order submitted and returns 'submitted' with that id, whether or not the liquidity
\* sample and the history entry could be stored; a batch returns as many 'submitted'
\* results with a venue id as the venue returned ids, and no result is reported twice.
C28_DispatchedStaysSubmitted ==
    [][ /\ (last'.op = "submit_order" /\ Sent(gateway') > Sent(gateway))
            => /\ ~last'.raised
               /\ orders'[last'.ref].status = "submitted"
               /\ orders'[last'.ref].gateway_order_id = <<SendCalls(gateway')>>
               /\ last'.result.status = "submitted"
               /\ last'.result.gateway_order_id = <<SendCalls(gateway')>>
        /\ (last'.op = "submit_orders_batch" /\ ~last'.raised)
            => Cardinality(SubmittedWithId(last'.result.details))
                   = Sent(gateway') - Sent(gateway) ]_vars

\* the venue took the order while neither the liquidity sample nor the history entry
\* could be stored
C28_Witness ==
    /\ last.op = "submit_order"
    /\ last.env.sample = "fail"
    /\ last.env.history = "fail"
    /\ last.result.status = "submitted"
    /\ orders[last.ref].status = "submitted"
    /\ order_history = <<>>
    /\ Sent(gateway) = 1

RECURSIVE SubmittedNotional(_, _)
\* the notionals of the results with status 'submitted', as check_order computes them
SubmittedNotional(os, details) ==
    IF details = <<>> THEN 0
    ELSE (IF Head(details).status = "submitted" THEN OrderSize(os[Head(details).order_id])
          ELSE 0) + SubmittedNotional(os, Tail(details))

\* C29: within one calendar day and from a single thread, every submit_order and
\* submit_orders_batch call adds to the daily accumulator the notionals of the orders it
\* reports as 'submitted' and nothing else, starting from zero, and the accumulator never
\* exceeds daily_trade_limit.
C29_DailyAccumulator ==
    /\ [](risk_manager.daily_trade_amount <= RiskConfig.daily_trade_limit)
    /\ [](last.op = "none" => risk_manager.daily_trade_amount = 0)
    /\ [][ /\ (last'.op = "submit_order" /\ ~last'.raised)
               => risk_manager'.daily_trade_amount =
                      risk_manager.daily_trade_amount
                          + SubmittedNotional(orders, <<last'.result>>)
           /\ (last'.op = "submit_orders_batch" /\ ~last'.raised)
               => risk_manager'.daily_trade_amount =
                      risk_manager.daily_trade_amount
                          + SubmittedNotional(orders, last'.result.details) ]_vars

\* an order refused by the daily limit alone, after a submission earlier in the day
C29_Witness ==
    /\ last.op = "submit_order"
    /\ last.result.status = "rejected"
    /\ risk_manager.daily_trade_amount = 150
    /\ ~_check_daily_limit(risk_manager, orders[last.ref])
    /\ _check_market_exposure(risk_manager, orders[last.ref])
    /\ _check_trade_frequency(risk_manager, now)
    /\ _check_order_size(orders[last.ref])

-----------------------------------------------------------------------------
(* C26 *)

\* the threads between the verdict of check_order and the end of record_trade
BetweenCheckAndRecord ==
    { th \in ThreadNames : threads[th].pc \notin {"idle"} }

RECURSIVE LedgerAmount(_)
LedgerAmount(trade_history) ==
    IF trade_history = <<>> THEN 0
    ELSE Head(trade_history).amount + LedgerAmount(Tail(trade_history))

\* C26: with submit_order running on two threads, the risk check and the record_trade of
\* one call never overlap the other thread's, the daily accumulator never exceeds
\* daily_trade_limit, and once both calls have returned the accumulator holds every
\* amount of the ledger and the ledger and the order history hold one entry for every
\* order the venue took.
C26_SerializedRiskCheck ==
    /\ Cardinality(BetweenCheckAndRecord) <= 1
    /\ risk_manager.daily_trade_amount <= RiskConfig.daily_trade_limit
    /\ BetweenCheckAndRecord = {}
          => /\ risk_manager.daily_trade_amount = LedgerAmount(risk_manager.trade_history)
             /\ Len(risk_manager.trade_history) = Sent(gateway)
             /\ Len(order_history) = Sent(gateway)

-----------------------------------------------------------------------------
(* C27 *)

\* the threads that passed the cooldown check for the event and have not returned
PastCooldownCheck(event_name) ==
    { th \in ThreadNames :
        threads[th].pc = "handling" /\ threads[th].event_name = event_name }

\* C27: of two handle_event calls for the same subscribed event name that run at the same
\* time, at most one is past the cooldown check, and a call that returns with a batch
\* submitted leaves the event in its cooldown.
C27_ExclusiveCooldownCheck ==
    /\ \A event_name \in subscribed_events : Cardinality(PastCooldownCheck(event_name)) <= 1
    /\ (last.op = "handle_event" /\ last.result.order_status = "submitted")
          => _is_in_cooldown(strategy_executor, last.result.event_name, now)

-----------------------------------------------------------------------------
(* C30 *)

\* the side _create_order gives the order of a recommendation (lines 455-467)
SideOf(recommendation) ==
    IF recommendation.signal = "ARBITRAGE"
    THEN (IF Get(recommendation, "best_bid") > Get(recommendation, "best_ask")
          THEN "buy" ELSE "sell")
    ELSE IF recommendation.signal = "BUY" THEN "buy" ELSE "sell"

\* C30: when at least one recommendation passes the filter and the market information is
\* available, _process_recommendations builds one Order per recommendation of the capped
\* list, with the side its signal asks for, every Order passes _validate_order, and the
\* orders go to submit_orders_batch in one call.
C30_OneOrderPerRecommendation ==
    (/\ last.op = "_process_recommendations"
     /\ last.out.valid # <<>>
     /\ last.market.status = "ok")
        => /\ Len(last.out.orders) = Len(last.out.capped)
           /\ last.out.batches = <<last.out.orders>>
           /\ \A i \in 1..Len(last.out.orders) :
                 /\ last.out.orders[i].side = SideOf(last.out.capped[i])
                 /\ _validate_order(last.out.orders[i]).valid

-----------------------------------------------------------------------------
(* utils/retry.py: the retry decorator, as send_order is wrapped by it *)

\* @retry(max_attempts=3, delay=1.0, backoff=2.0, jitter=0.1): times are in
\* tenths of a second
RetryDelay == 10
RetryBackoff == 2
JitterDivisor == 10
MinSleep == 1

MaxAttempts == 3

\* what one invocation of the wrapped function does: it returns a value, raises
\* an exception of the configured types, or raises another exception
FuncOutcomes == {"value", "retryable", "other"}

\* the wrapper at its entry (lines 40-41); script[i] is what the i-th invocation
\* of the wrapped function does
WrapperEntry(max_attempts, script) ==
    [pc |-> "while", max_attempts |-> max_attempts, script |-> script, attempts |-> 0,
     current_delay |-> RetryDelay, invocations |-> 0, slept |-> 0,
     result |-> [status |-> "none", value |-> 0]]

\* line 43, and line 66 when the loop is not entered
while_test(call) ==
    IF call.attempts < call.max_attempts THEN [call EXCEPT !.pc = "try"]
    ELSE [call EXCEPT !.pc = "done", !.result = [status |-> "RetryError", value |-> 0]]

\* a try block whose except clause catches every exception
try_func_catches_all(call) ==
    LET i == call.invocations + 1
        outcome == call.script[i]
    IN IF outcome = "value"
       THEN [call EXCEPT !.invocations = i, !.pc = "done",
                         !.result = [status |-> "returned", value |-> i]]
       ELSE [call EXCEPT !.invocations = i, !.pc = "except"]

\* line 45: the function is invoked; its value is returned, an exception outside
\* the configured types leaves the wrapper, a configured one is caught.  The
\* value of the i-th invocation is i
try_func(call) ==
    LET i == call.invocations + 1
        outcome == call.script[i]
    IN IF outcome = "value"
       THEN [call EXCEPT !.invocations = i, !.pc = "done",
                         !.result = [status |-> "returned", value |-> i]]
       ELSE IF outcome = "other"
       THEN [call EXCEPT !.invocations = i, !.pc = "done",
                         !.result = [status |-> "propagated", value |-> i]]
       ELSE [call EXCEPT !.invocations = i, !.pc = "except"]

\* lines 47-51: the failure is counted; the last one raises RetryError
except_clause(call) ==
    LET attempts == call.attempts + 1
    IN IF attempts >= call.max_attempts
       THEN [call EXCEPT !.attempts = attempts, !.pc = "done",
                         !.result = [status |-> "RetryError", value |-> 0]]
       ELSE [call EXCEPT !.attempts = attempts, !.pc = "sleep"]

\* lines 54-56: the delay with its jitter, at least 0.1 s; random.uniform is
\* taken at its two ends
SleepTimes(call) ==
    LET jitter_amount == call.current_delay \div JitterDivisor
    IN { IF t < MinSleep THEN MinSleep ELSE t :
            t \in {call.current_delay - jitter_amount, call.current_delay + jitter_amount} }

\* lines 61-63: the sleep and the backoff
sleep_and_backoff(call, sleep_time) ==
    [call EXCEPT !.slept = @ + sleep_time, !.current_delay = @ * RetryBackoff,
                 !.pc = "while"]

InitRetry ==
    /\ now = 0
    /\ threads = <<>>
    /\ orders = <<>>
    /\ risk_manager = <<>>
    /\ liquidity_analyzer = <<>>
    /\ large_order_monitor = <<>>
    /\ order_history = <<>>
    /\ gateway = <<>>
    /\ strategy_executor = <<>>
    /\ \E max_attempts \in 0..MaxAttempts, script \in [1..(MaxAttempts + 1) -> FuncOutcomes] :
          last = [op |-> "input", max_attempts |-> max_attempts, script |-> script]

retry_only ==
    UNCHANGED <<now, orders, risk_manager, liquidity_analyzer, large_order_monitor,
                order_history, gateway, strategy_executor>>

\* the wrapped function is called
CallWrapper ==
    /\ last.op = "input"
    /\ threads = <<>>
    /\ threads' = WrapperEntry(last.max_attempts, last.script)
    /\ last' = [op |-> "call", max_attempts |-> last.max_attempts, script |-> last.script]
    /\ retry_only

WhileTest ==
    /\ threads # <<>>
    /\ threads.pc = "while"
    /\ threads' = while_test(threads)
    /\ UNCHANGED last
    /\ retry_only

TryFunc ==
    /\ threads # <<>>
    /\ threads.pc = "try"
    /\ threads' = try_func(threads)
    /\ UNCHANGED last
    /\ retry_only

ExceptClause ==
    /\ threads # <<>>
    /\ threads.pc = "except"
    /\ threads' = except_clause(threads)
    /\ UNCHANGED last
    /\ retry_only

SleepAndBackoff ==
    /\ threads # <<>>
    /\ threads.pc = "sleep"
    /\ \E sleep_time \in SleepTimes(threads) :
          threads' = sleep_and_backoff(threads, sleep_time)
    /\ UNCHANGED last
    /\ retry_only

\* the wrapper returns or raises
WrapperReturns ==
    /\ threads # <<>>
    /\ threads.pc = "done"
    /\ last' = [op |-> "wrapper", max_attempts |-> threads.max_attempts,
                script |-> threads.script, result |-> threads.result,
                invocations |-> threads.invocations, slept |-> threads.slept]
    /\ threads' = <<>>
    /\ retry_only

NextRetry ==
    CallWrapper \/ WhileTest \/ TryFunc \/ ExceptClause \/ SleepAndBackoff \/ WrapperReturns

SpecRetry == InitRetry /\ [][NextRetry]_vars

\* the wrapped function and time.sleep return, and the calling thread runs
SpecRetryFair == SpecRetry /\ WF_vars(NextRetry)

-----------------------------------------------------------------------------
(* Properties of the scheduler loop, checked under SpecExecutor and
   SpecExecutorFair *)

\* stop() has been called since loop thread i was started: the stop event is
\* set, or a later start() has replaced the thread (start() only starts a
\* thread when _running is false, and only stop() makes it false again)
Stopped(se, i) == i # se._thread \/ se._stop_event

\* thread i starts a strategy pass in this step
StartsPass(i) ==
    /\ i \in DOMAIN strategy_executor.threads
    /\ strategy_executor.threads[i] = "check"
    /\ strategy_executor'.threads[i] = "executing"

\* C31: once stop() has been called for a loop thread, that thread starts no
\* new strategy pass, also when stop() returned through the join timeout.
C31_NoPassAfterStop ==
    [][\A i \in 1..MaxThreads :
          (i \in DOMAIN strategy_executor.threads /\ Stopped(strategy_executor, i))
              => ~StartsPass(i)]_vars

\* loop thread i has just had a pass end by an exception
Raised(i) == last.op = "_run_loop" /\ last.thread = i /\ last.outcome = "raise"

\* loop thread i is inside _execute_strategy
InPass(i) ==
    i \in DOMAIN strategy_executor.threads /\ strategy_executor.threads[i] = "executing"

\* C32: a pass that raises does not end the loop thread: the thread goes on
\* to the sleep loop, and it starts a next pass unless the stop event is set.
C32_LoopSurvivesRaisingPass ==
    /\ [](\A i \in 1..MaxThreads :
            Raised(i) => strategy_executor.threads[i] = "waiting")
    /\ \A i \in 1..MaxThreads :
          Raised(i) ~> (\/ InPass(i)
                        \/ strategy_executor._stop_event)

\* a pass of the running, not stopped executor has raised and its thread is in
\* the sleep loop
C32_Witness ==
    /\ last.op = "_run_loop"
    /\ last.outcome = "raise"
    /\ strategy_executor._running
    /\ ~strategy_executor._stop_event
    /\ strategy_executor.threads[last.thread] = "waiting"

StepOf(i) == last'.op = "_run_loop" /\ last'.thread = i

-----------------------------------------------------------------------------
(* Properties of a strategy pass's order submission, checked under
   SpecMChooseN *)

\* signal other than HOLD, confidence MEDIUM or HIGH (at least min_confidence
\* in LOW < MEDIUM < HIGH), positive size
MeetsThreshold(recommendation) ==
    /\ recommendation.signal # "HOLD"
    /\ recommendation.confidence \in {"MEDIUM", "HIGH"}
    /\ "order_size" \in DOMAIN recommendation
    /\ recommendation.order_size > 0

-----------------------------------------------------------------------------
(* The cooldown map under handle_event, checked under SpecExecutor *)

\* C35: a handle_event call that prepared at least one order changes the
\* cooldown map in the entry of its event name only, to the time of the call
\* plus cooldown_period; a call that was ignored or prepared no order reports
\* nothing submitted and leaves the cooldown map as it was.
C35_CooldownFrame ==
    [][last'.op = "handle_event"
        => IF last'.result.order_count > 0
           THEN /\ last'.event_name \in DOMAIN strategy_executor'._event_cooldowns
                /\ \A e \in DOMAIN strategy_executor'._event_cooldowns :
                      IF e = last'.event_name
                      THEN strategy_executor'._event_cooldowns[e] = now + cooldown_period
                      ELSE /\ e \in DOMAIN strategy_executor._event_cooldowns
                           /\ strategy_executor'._event_cooldowns[e]
                                 = strategy_executor._event_cooldowns[e]
                /\ DOMAIN strategy_executor._event_cooldowns
                      \subseteq DOMAIN strategy_executor'._event_cooldowns
           ELSE /\ strategy_executor'._event_cooldowns = strategy_executor._event_cooldowns
                /\ last'.result.order_status # "submitted"]_vars

\* a subscribed event with a valid signal for a known market was handled, no
\* order came out of it and no cooldown is set
C35_Witness ==
    /\ last.op = "handle_event"
    /\ last.event_name \in subscribed_events
    /\ last.result.status = "processed"
    /\ HasValidSignal(last.event_result, last.market_info)
    /\ last.result.order_count = 0
    /\ strategy_executor._event_cooldowns = <<>>

-----------------------------------------------------------------------------
(* The cache under add_historical_data, checked under SpecLiquidity *)

\* C36: add_historical_data for a symbol appends the sample, keeps at most
\* max_history_per_symbol samples, removes every cached analysis of that
\* symbol and keeps the cached analyses of every other symbol.
C36_InvalidatesOwnSymbolOnly ==
    [][last'.op = "add_historical_data"
        => /\ Len(History(liquidity_analyzer', last'.symbol)) <= max_history_per_symbol
           /\ Len(History(liquidity_analyzer', last'.symbol))
                 = Len(History(liquidity_analyzer, last'.symbol)) + 1
           /\ \A symbol \in LiquiditySymbols, target_size \in {0, 100} :
                 LET key == CacheKey(symbol, target_size)
                 IN IF symbol = last'.symbol
                    THEN key \notin DOMAIN liquidity_analyzer'.cache
                    ELSE key \in DOMAIN liquidity_analyzer.cache
                            => /\ key \in DOMAIN liquidity_analyzer'.cache
                               /\ liquidity_analyzer'.cache[key]
                                     = liquidity_analyzer.cache[key]]_vars

-----------------------------------------------------------------------------
(* The in-memory list and the index while the worker pool runs, checked under
   SpecBatch *)

\* the file names the index holds for a symbol
Indexed(lom, symbol) ==
    IF symbol \in DOMAIN lom.order_index
    THEN {lom.order_index[symbol][k] : k \in DOMAIN lom.order_index[symbol]}
    ELSE {}

\* the in-memory list never holds more than max_memory_orders records, also
\* while the pool tasks run
MemoryBound ==
    Len(large_order_monitor.large_orders) <= large_order_monitor.max_memory_orders

\* when record_orders_batch returns, the file name of every order whose task
\* returned true is in the index list of the order's symbol
RecordedIsIndexed ==
    last.op = "record_orders_batch"
        => \A i \in DOMAIN last.futures :
              last.futures[i].success
                 => last.futures[i].filename
                       \in Indexed(large_order_monitor, last.futures[i].order.symbol)

\* C37: the in-memory list never holds more than max_memory_orders records,
\* in every reachable state, also while the pool tasks of record_orders_batch
\* run concurrently; and every recorded order's file name is in the index of
\* its symbol.
C37_MemoryBoundAndIndex == MemoryBound /\ RecordedIsIndexed

-----------------------------------------------------------------------------
(* record_large_order and the durable log, checked under SpecMonitor *)

\* the record the call made, as it is kept in the list and in the file
RecordOf(order, t) ==
    [timestamp |-> t, order_id |-> order.order_id, symbol |-> order.symbol,
     side |-> order.side, quantity |-> order.quantity, price |-> order.price,
     account_id |-> order.account_id, gateway_name |-> order.gateway_name]

\* C38: a record_large_order that returns false because the write failed
\* leaves the in-memory list and the index as they were before the call; one
\* that returns true has put the record in the list, in a file and in the
\* index of its symbol.
C38_AllOrNothing ==
    last.op = "record_large_order"
        => IF last.result
           THEN /\ large_order_monitor.large_orders # <<>>
                /\ large_order_monitor.large_orders[Len(large_order_monitor.large_orders)]
                      = RecordOf(last.order, now)
                /\ \E f \in DOMAIN large_order_monitor.files :
                      /\ large_order_monitor.files[f] = RecordOf(last.order, now)
                      /\ f \in Indexed(large_order_monitor, last.order.symbol)
           ELSE /\ large_order_monitor.large_orders = last.before.large_orders
                /\ large_order_monitor.order_index = last.before.order_index

\* C39: every record_large_order that returns true adds one file to the
\* durable log and changes no earlier file, also within one tick of the clock.
C39_DurableLogAppendOnly ==
    (last.op = "record_large_order" /\ last.result)
        => /\ Cardinality(DOMAIN large_order_monitor.files)
                 = Cardinality(DOMAIN last.before.files) + 1
           /\ \A f \in DOMAIN last.before.files :
                 /\ f \in DOMAIN large_order_monitor.files
                 /\ large_order_monitor.files[f] = last.before.files[f]

-----------------------------------------------------------------------------
(* Properties of the retry wrapper, checked under SpecRetryFair *)

\* the first invocation that does not raise a configured exception, or
\* MaxAttempts + 2 when there is none in the script
FirstDecisive(script) ==
    LET decisive == {i \in DOMAIN script : script[i] # "retryable"}
    IN IF decisive = {} THEN MaxAttempts + 2
       ELSE CHOOSE i \in decisive : \A j \in decisive : i <= j

\* C40: with max_attempts = k >= 1 the wrapped function is invoked at least
\* once and at most k times; the wrapper returns the value of the first
\* invocation that succeeds and invokes no more; it raises RetryError after
\* exactly k failed invocations; an exception outside the configured types
\* leaves the wrapper at the invocation that raised it; and every call ends.
C40_RetryBounded ==
    /\ []((last.op = "wrapper" /\ last.max_attempts >= 1)
            => LET k == last.max_attempts
                   first == FirstDecisive(last.script)
               IN /\ last.invocations >= 1
                  /\ last.invocations <= k
                  /\ IF first > k
                     THEN /\ last.result.status = "RetryError"
                          /\ last.invocations = k
                     ELSE /\ last.invocations = first
                          /\ last.result.value = first
                          /\ last.result.status =
                                IF last.script[first] = "value"
                                THEN "returned" ELSE "propagated")
    /\ <>(last.op = "wrapper")

\* a call with three attempts whose first two invocations failed and whose
\* third returned
C40_Witness ==
    /\ last.op = "wrapper"
    /\ last.max_attempts = 3
    /\ last.invocations = 3
    /\ last.result.status = "returned"
    /\ last.slept > 0
====
